---- MODULE Spec2Model ----
(***************************************************************************)
(* Realtime session orchestrator of src/react/src/app/chat-interface.tsx:  *)
(* connect / disconnect, the inbound event loop (startResponseListener,    *)
(* handleResponse, handleInputAudio) and sendMessage, as one state machine.*)
(*                                                                         *)
(* Every await of the source is a suspension point: a handler is split at  *)
(* its awaits, and each piece between two awaits is one atomic action.     *)
(* The transport (rt-client), the lookup client and the user are the       *)
(* environment: what they deliver, and whether a call resolves or rejects, *)
(* is chosen with \E.                                                      *)
(*                                                                         *)
(* connect, disconnect, sendMessage are entry points of the orchestrator   *)
(* (spec section 4.1 gives each a contract for every state); the connect   *)
(* button is the only caller of handleConnect and is disabled while        *)
(* isConnecting (line 1775).                                               *)
(***************************************************************************)
EXTENDS Integers, Sequences, FiniteSets, TLC

\* ------------------------------------------------------------- bounds
MaxClients == 2      \* RTClient instances created (connect attempts reaching line 520)
MaxAttempts == 2     \* clicks on Connect
MaxMsgs == 3         \* Message objects appended to the log
MaxSendTasks == 1    \* sendMessage calls in flight at once
MaxDisc == 2         \* disconnect calls suspended on close() at once
MaxEvents == 2       \* inbound events delivered, over all transports
MaxItems == 2        \* response items delivered, over all responses
MaxParts == 2        \* content parts delivered, over all items
MaxChunks == 2       \* text / transcript / audio fragments delivered

Clients == 1..MaxClients
NoClient == 0        \* clientRef.current === null

\* ------------------------------------------------------------- texts
\* A text is a sequence of characters; " " is white space.
Space == " "
Texts == {<< >>, <<Space>>, <<"h">>}        \* what the user may have typed
Letters == <<"a", "b", "c", "d">>
\* What a stream may deliver as its next fragment when n fragments were
\* delivered before: nothing ("") or one letter, a new one each time.
Fragments(n) == {<< >>, <<Letters[((n % Len(Letters)) + 1)]>>}
\* item.transcription: undefined when the service provided none, "" or a text
Absent == <<"undefined">>
Transcriptions == {Absent, << >>, <<"t">>}

RECURSIVE TrimStart(_)
TrimStart(s) == IF s # << >> /\ Head(s) = Space THEN TrimStart(Tail(s)) ELSE s

RECURSIVE TrimEnd(_)
TrimEnd(s) ==
    IF s # << >> /\ s[Len(s)] = Space THEN TrimEnd(SubSeq(s, 1, Len(s) - 1)) ELSE s

\* String.prototype.trim (line 892)
Trim(s) == TrimEnd(TrimStart(s))

\* JavaScript truthiness of a string: "" is falsy (lines 758, 770, 867, 892)
Truthy(s) == s # << >>

\* Fixed message texts, one token each.
AgentErrorText == <<"Please input/select an agent.">>
ConnectErrorText == <<"Error connecting to the server: ">>
SessionStartedText == <<"Session started">>
SearchingText == <<"Searching">>
ResponseFailedText == <<"Response failed:">>

VARIABLES
    isConnected,      \* useState isConnected (line 399)
    isConnecting,     \* useState isConnecting (line 400)
    clientRef,        \* clientRef.current: NoClient or the RTClient instance (line 423)
    nClients,         \* RTClient instances constructed so far
    nAttempts,        \* connect attempts made so far
    closed,           \* the clients whose close() has been called
    gone,             \* the clients whose close() has resolved
    searchClientRef,  \* searchClientRef.current # null (line 428)
    connPc,           \* handleConnect: "idle" or the await it is suspended on
    closing,          \* closing[c]: disconnect calls suspended on c.close()
    clientAuth,       \* clientAuth the latest RTClient was constructed with
    tools,            \* useState tools (line 395) and the tools sent to the service
    config,           \* configLoaded, and the token of the configuration provider
    closingRec,       \* closingRec[c][r]: of these calls, those whose closure
                      \* holds isRecording = r
    av,               \* avatar media session: peerConnection and the video surface
    rec,              \* isRecording, audioHandlerRef and the toggleRecording call
    pm,               \* proactiveManagerRef.current and its timer callbacks
    messages,         \* useState messages: the log of [type, content, owner]
    nMsgs,            \* Message objects appended so far
    sm,               \* sendMessage calls: slot -> [pc, text, client, trace]
    lst,              \* event loops: client -> listener record
    budget            \* what the environment has delivered so far

connVars == <<isConnected, isConnecting, clientRef, nClients, nAttempts, closed,
              gone, searchClientRef, connPc, closing, clientAuth, tools, config,
              closingRec, av, rec>>
\* connVars without rec
sessVars == <<isConnected, isConnecting, clientRef, nClients, nAttempts, closed,
              gone, searchClientRef, connPc, closing, clientAuth, tools, config,
              closingRec, av>>
logVars == <<messages, nMsgs>>
vars == <<isConnected, isConnecting, clientRef, nClients, nAttempts, closed, gone,
          searchClientRef, connPc, closing, clientAuth, tools, config, closingRec,
          av, rec, pm, messages, nMsgs, sm, lst, budget>>

\* ------------------------------------------------------------- the log
\* A log entry is a Message object.  owner = c marks the object that the event
\* loop of client c holds in its local variable message (line 748): the entry
\* and that variable are one object.  Every other entry has owner NoClient.
Entry(ty, content, owner) == [type |-> ty, content |-> content, owner |-> owner]

CanAppend == nMsgs < MaxMsgs

\* setMessages((prev) => [...prev, m]) with a fresh object m
\* (lines 511, 614, 636, 815, 848, 863, 896)
AppendMessage(ty, content) ==
    /\ messages' = Append(messages, Entry(ty, content, NoClient))
    /\ nMsgs' = nMsgs + 1

\* No RTCPeerConnection yet (line 176), nothing attached to videoRef (426).
\* conn: the variable peerConnection holds an object; open: RTCPeerConnection
\* objects constructed and not closed, numbered in the order they were made,
\* so that peerConnection holds object open; neg: where the setRemoteDescription
\* call of the latest getLocalDescription is; old: where the call of an earlier
\* one is, when it was still running as the latest was made; negOn, oldOn: the
\* object a pending setLocalDescription was called on; localSet: the objects
\* whose local description is set; sent: what the latest connectAvatar call
\* was given, the local description of an object that had one ("set") or had
\* none yet ("unset").
NoAvatar ==
    [conn |-> FALSE, open |-> 0, neg |-> "idle", video |-> FALSE, old |-> "idle",
     negOn |-> 0, oldOn |-> 0, localSet |-> {}, sent |-> "none"]

\* isRecording false (line 398), audioHandlerRef.current null until the
\* mount effect has initialized it (lines 424, 1049-1053), no toggle running.
\* speaking: isUserSpeaking.current (line 427); capturing: the recorder of the
\* audio handler is running; chunkPc: where its callback is (lines 923-928);
\* chunks: the chunks it has handed over so far; last: what became of the
\* latest one.
NoRecording ==
    [on |-> FALSE, handler |-> FALSE, pc |-> "idle", speaking |-> FALSE,
     capturing |-> FALSE, chunkPc |-> "idle", chunks |-> 0, last |-> "none"]

\* proactiveManagerRef.current null (line 425), no callback running.
\* ticks, greetings, nudges count what the timer did since start(); calls:
\* the transport calls the latest callback has made, in order.
NoManager ==
    [exists |-> FALSE, running |-> FALSE, greeted |-> FALSE, signalled |-> FALSE,
     idle |-> 0, ticks |-> 0, greetings |-> 0, nudges |-> 0, task |-> "idle",
     calls |-> << >>]

\* No tool selected (line 395), nothing declared to the service.  selected:
\* the names in the state tools; captured: those of the render handleConnect
\* was called in; declared: those sent in the latest configure (line 589).
NoTools == [selected |-> {}, captured |-> {}, declared |-> {}]

\* The mount effect has not fetched /config yet (configLoaded false, line
\* 407; entraToken "", line 369).  Tokens of the provider are numbered in
\* the order it issues them, 0 is no token.  token: the state entraToken;
\* captured: the entraToken of the render handleConnect was called in;
\* fetched: what the refresh of the latest attempt got (NotFetched before it,
\* FetchFailed, or the token, 0 when the answer held none); used: the token
\* the latest RTClient of a refreshed attempt was constructed with.
NotFetched == -2
FetchFailed == -1

NoConfig ==
    [loaded |-> "pending", token |-> 0, captured |-> 0, fetched |-> NotFetched,
     used |-> 0]

IdleSend == [pc |-> "idle", text |-> << >>, client |-> NoClient, trace |-> << >>]

IdleListener ==
    [pc |-> "idle", msg |-> FALSE, content |-> << >>, arrived |-> << >>,
     txt |-> "none", aud |-> "none",
     fn |-> "none", callId |-> "none", fcRes |-> "none", results |-> << >>,
     trace |-> << >>, died |-> "none"]

Init ==
    /\ isConnected = FALSE
    /\ isConnecting = FALSE
    /\ clientRef = NoClient
    /\ nClients = 0
    /\ nAttempts = 0
    /\ closed = {}
    /\ gone = {}
    /\ searchClientRef = FALSE
    /\ connPc = "idle"
    /\ closing = [c \in Clients |-> 0]
    /\ clientAuth = "unset"
    /\ tools = NoTools
    /\ config = NoConfig
    /\ closingRec = [c \in Clients |-> [r \in BOOLEAN |-> 0]]
    /\ av = NoAvatar
    /\ rec = NoRecording
    /\ pm = NoManager
    /\ messages = << >>
    /\ nMsgs = 0
    /\ sm = [k \in 1..MaxSendTasks |-> IdleSend]
    /\ lst = [c \in Clients |-> IdleListener]
    /\ budget = [events |-> 0, items |-> 0, parts |-> 0, chunks |-> 0]

\* One observable step of a handler, kept in its trace: a transport call (with
\* the client it was made on) or an append to the log.
Ev(op, client, output, callId) ==
    [op |-> op, client |-> client, output |-> output, callId |-> callId]

\* ------------------------------------------------------------- connect
Modes == {"model", "agent"}

\* The check of the agent id left out.
AgentNeverMissing(md, hasAgent) == FALSE

\* line 510: mode === "agent" && !agentId
AgentMissing(md, hasAgent) == md = "agent" /\ ~hasAgent

\* A handler with no finally: the attempt ends and the flag stays.
ConnectNoFinally ==
    /\ isConnecting' = isConnecting
    /\ connPc' = "idle"

\* finally { setIsConnecting(false) } (lines 643-645)
ConnectFinally ==
    /\ isConnecting' = FALSE
    /\ connPc' = "idle"

\* The credentials of the settings form: an Entra token, an API key, or
\* neither (lines 367, 369).
Credentials == {"token", "key", "none"}

\* lines 500-508: clientAuth = entraToken ? {getToken} : {key: apiKey}; with
\* neither it is {key: ""}.
ClientAuth(cred) == IF cred = "token" THEN "token"
                    ELSE IF cred = "key" THEN "key" ELSE "emptykey"

\* handleConnect from the credentials to the await of configure (lines
\* 499-602).  validUrl: whether new URL(endpoint) succeeds (line 521).
ConnectBody(cred, md, hasAgent, validUrl, enableSearch) ==
    IF AgentMissing(md, hasAgent)
    THEN /\ CanAppend
         /\ AppendMessage("error", AgentErrorText)            \* lines 511-518
         /\ ConnectFinally
         /\ UNCHANGED <<clientRef, nClients, searchClientRef, clientAuth>>
    ELSE IF ~validUrl
    THEN /\ CanAppend
         /\ AppendMessage("error", ConnectErrorText)          \* lines 634-642
         /\ ConnectFinally
         /\ UNCHANGED <<clientRef, nClients, searchClientRef, clientAuth>>
    ELSE /\ nClients < MaxClients
         /\ nClients' = nClients + 1
         /\ clientRef' = nClients + 1                         \* line 520
         /\ clientAuth' = ClientAuth(cred)                    \* line 522
         /\ searchClientRef' = (enableSearch \/ searchClientRef)  \* 570-576
         /\ isConnecting' = TRUE                              \* line 479
         /\ connPc' = "configure"                             \* line 577
         /\ UNCHANGED logVars

\* configure({..., tools, ...}) (lines 577-589): when the attempt gets to the
\* handshake, the tools of its render are declared.
Declare(names) ==
    tools' = IF connPc' = "configure" THEN [tools EXCEPT !.declared = names] ELSE tools

\* handleConnect, connect branch, with no configuration loaded from the
\* server (configLoaded false, line 482): from the click to the await of
\* configure (lines 476-602).
HandleConnect(cred, md, hasAgent, validUrl, enableSearch) ==
    /\ ~isConnected                                   \* line 477
    /\ ~isConnecting                                  \* line 1775
    /\ nAttempts < MaxAttempts
    /\ nAttempts' = nAttempts + 1
    /\ ConnectBody(cred, md, hasAgent, validUrl, enableSearch)
    /\ Declare(tools.selected)
    /\ UNCHANGED <<isConnected, closed, gone, closing, config, closingRec, av, rec,
                   pm, sm, lst, budget>>

\* handleConnect with a loaded configuration (configLoaded true): from the
\* click to the await of fetch("/config") (lines 476-484).
HandleConnectLoaded ==
    /\ ~isConnected
    /\ ~isConnecting
    /\ nAttempts < MaxAttempts
    /\ nAttempts' = nAttempts + 1
    /\ isConnecting' = TRUE                           \* line 479
    /\ connPc' = "refresh"                            \* line 484
    /\ tools' = [tools EXCEPT !.captured = tools.selected]
    /\ config' = [config EXCEPT !.captured = config.token, !.fetched = NotFetched]
    /\ UNCHANGED <<isConnected, clientRef, nClients, closed, gone, searchClientRef,
                   closing, clientAuth, closingRec, av, rec, pm, logVars, sm, lst,
                   budget>>

MaxTokens == 3       \* tokens the configuration provider issues

\* What fetch("/config") of a connect attempt gives (lines 484-497): it
\* throws or answers not ok (FetchFailed), answers with no token (0), or
\* with the next token of the provider.
RefreshOutcomes == {FetchFailed, 0, config.token + 1}

\* entraToken of line 501 is the constant of the render handleConnect was
\* called in: setEntraToken (line 491) acts on the next render.
TokenAtConnect(captured, fetched) == captured

\* The token refresh settled, with a response or an error (lines 484-497):
\* setEndpoint and setEntraToken act on the next render, and handleConnect
\* goes on with the values it was called with.
RefreshSettles(cred, md, hasAgent, validUrl, enableSearch) ==
    /\ connPc = "refresh"
    /\ ConnectBody(cred, md, hasAgent, validUrl, enableSearch)
    /\ Declare(tools.captured)
    /\ \E fetched \in RefreshOutcomes :
          /\ fetched <= MaxTokens
          /\ config' = [config EXCEPT
                           !.fetched = fetched,
                           !.token = IF fetched > 0 THEN fetched ELSE @,
                           !.used = IF connPc' = "configure"
                                    THEN TokenAtConnect(config.captured, fetched)
                                    ELSE @]
    /\ UNCHANGED <<isConnected, nAttempts, closed, gone, closing, closingRec, av,
                   rec, pm, sm, lst, budget>>

\* The mount effect fetchConfig settled (lines 435-474): /config is not
\* there (404), it answered with or without a token, or the fetch threw.
ConfigLoads(outcome) ==
    /\ config.loaded = "pending"
    /\ config' = CASE outcome = "missing" -> [config EXCEPT !.loaded = "no"]
                   [] outcome = "token" -> [config EXCEPT !.loaded = "yes", !.token = 1]
                   [] OTHER -> [config EXCEPT !.loaded = "yes"]
    /\ UNCHANGED <<isConnected, isConnecting, clientRef, nClients, nAttempts, closed,
                   gone, searchClientRef, connPc, closing, clientAuth, tools,
                   closingRec, av, rec, pm, logVars, sm, lst, budget>>

\* startResponseListener up to its first await (lines 872-876): a loop is
\* started on the client clientRef holds, none when it holds null.
StartListener(l) ==
    IF clientRef = NoClient
    THEN l
    ELSE [l EXCEPT ![clientRef] = [IdleListener EXCEPT !.pc = "await_event"]]

\* What configure answers about the avatar and what becomes of the media
\* session in getLocalDescription (lines 603-605, 950-971): no avatar in the
\* session, the session set up, new RTCPeerConnection throwing (line 953), or
\* addTransceiver / createDataChannel throwing (lines 1012-1026).
AvatarOutcomes == {"none", "ok", "create_fails", "attach_fails"}

AvatarErrorText == <<"Error establishing avatar connection: ">>

\* A setRemoteDescription call at this stage is suspended on an await.
InFlight(stage) == stage \in {"offer", "local", "settle", "answer", "remote"}

\* getLocalDescription up to the point it returns or throws (lines 950-971):
\* peerConnection is assigned, setupPeerConnection clears the video surface,
\* and setRemoteDescription starts, up to its await of createOffer (line 974).
GetLocalDescription(a, avatar) ==
    CASE avatar = "ok" ->
           [a EXCEPT !.conn = TRUE, !.open = @ + 1, !.video = FALSE, !.neg = "offer",
                     !.negOn = 0,
                     !.old = IF InFlight(a.neg) THEN a.neg ELSE @,
                     !.oldOn = IF InFlight(a.neg) THEN a.negOn ELSE @]
      [] avatar = "attach_fails" ->
           [a EXCEPT !.conn = TRUE, !.open = @ + 1, !.video = FALSE]
      [] OTHER -> a

\* new ProactiveEventManager(whenGreeting, whenInactive, 10000).start()
\* (lines 626-633); a callback in flight goes on.
StartManager(p) ==
    [NoManager EXCEPT !.exists = TRUE, !.running = TRUE, !.task = p.task,
                      !.calls = p.calls]

\* getLocalDescription throws into the catch of handleConnect (line 634).
AvatarThrows(avatar) == avatar \in {"create_fails", "attach_fails"}

\* handleConnect after configure resolved (lines 603-633, 643-645), or, when
\* getLocalDescription throws, its catch (lines 634-645).
ConfigureResolves(avatar, proactive) ==
    /\ connPc = "configure"
    /\ CanAppend
    /\ avatar = "ok" /\ InFlight(av.neg) => ~InFlight(av.old)
    /\ av' = GetLocalDescription(av, avatar)                  \* lines 603-605
    /\ IF AvatarThrows(avatar)
       THEN /\ AppendMessage("error", ConnectErrorText)       \* lines 634-642
            /\ UNCHANGED <<lst, isConnected, pm>>
       ELSE /\ lst' = StartListener(lst)                      \* line 607
            /\ isConnected' = TRUE                            \* line 613
            /\ AppendMessage("status", SessionStartedText)    \* lines 614-622
            /\ pm' = IF proactive THEN StartManager(pm) ELSE pm   \* lines 626-633
    /\ ConnectFinally
    /\ UNCHANGED <<clientRef, nClients, nAttempts, closed, gone, searchClientRef,
                   closing, clientAuth, tools, config, closingRec, rec, sm, budget>>

\* handleConnect after configure rejected (lines 634-645)
ConfigureRejects ==
    /\ connPc = "configure"
    /\ CanAppend
    /\ AppendMessage("error", ConnectErrorText)
    /\ ConnectFinally
    /\ UNCHANGED <<isConnected, clientRef, nClients, nAttempts, closed, gone,
                   searchClientRef, closing, clientAuth, tools, config, closingRec, av, rec, pm,
                   sm, lst, budget>>

\* ------------------------------------------------------------- tools
\* predefinedTools (lines 76-160), by the name of the tool
ToolNames == {"search", "get_time", "get_weather", "calculate"}

\* Every predefined tool can be selected.
AllToolsEnabled(name) == TRUE

\* enabled: true of predefinedTools (lines 94, 105, 130, 151)
ToolEnabled(name) == name \in {"search", "get_time"}

\* The function names handleResponse executes (lines 793, 811)
Dispatchable == {"get_time", "search"}

\* A tool checkbox changes (lines 1553-1571): disabled while isConnected and
\* for a tool that is not enabled.  checked: e.target.checked.
ToolCheckbox(name, checked) ==
    /\ ~(isConnected \/ ~ToolEnabled(name))                   \* line 1571
    /\ tools' = [tools EXCEPT !.selected = IF checked THEN @ \cup {name}
                                           ELSE @ \ {name}]  \* lines 1557-1565
    /\ tools' # tools
    /\ UNCHANGED <<isConnected, isConnecting, clientRef, nClients, nAttempts, closed,
                   gone, searchClientRef, connPc, closing, clientAuth, config, closingRec,
                   av, rec, pm, logVars, sm, lst, budget>>

\* ------------------------------------------------------------- disconnect
RECURSIVE SumOver(_, _)
SumOver(f, S) ==
    IF S = {} THEN 0
    ELSE LET x == CHOOSE y \in S : TRUE IN f[x] + SumOver(f, S \ {x})

\* disconnect() up to the await of close() (lines 717-720).  The closure of
\* the call holds the isRecording of the render it was made in.
DisconnectCall ==
    IF clientRef # NoClient                                   \* line 718
    THEN /\ SumOver(closing, Clients) < MaxDisc
         /\ closing' = [closing EXCEPT ![clientRef] = @ + 1]
         /\ closingRec' = [closingRec EXCEPT ![clientRef][rec.on] = @ + 1]
         /\ closed' = closed \cup {clientRef}                 \* line 720
    ELSE UNCHANGED <<closing, closingRec, closed>>

\* disconnect up to the await of close() (lines 717-720)
Disconnect ==
    /\ DisconnectCall
    /\ UNCHANGED <<isConnected, isConnecting, clientRef, nClients, nAttempts,
                   gone, searchClientRef, connPc, clientAuth, tools, config, av, rec, pm, logVars,
                   sm, lst, budget>>

\* The connect button while Connected: clearVideo(); await disconnect()
\* (lines 646-649, 1029-1036).
HandleDisconnect ==
    /\ isConnected                                            \* line 477
    /\ ~isConnecting                                          \* line 1775
    /\ clientRef # NoClient \/ av.video
    /\ av' = [av EXCEPT !.video = FALSE]                      \* line 647
    /\ DisconnectCall                                         \* line 648
    /\ UNCHANGED <<isConnected, isConnecting, clientRef, nClients, nAttempts,
                   gone, searchClientRef, connPc, clientAuth, tools, config, rec, pm, logVars,
                   sm, lst, budget>>

\* proactiveManagerRef.current?.stop() (line 725)
StopManager(p) == [p EXCEPT !.running = FALSE]

\* disconnect after close() resolved (lines 721-738): the handle and the
\* peerConnection variable are set to null, the manager is stopped,
\* isUserSpeaking is reset, and the recording is stopped when the closure's
\* isRecording is true.
CloseResolves(c) ==
    /\ closing[c] > 0
    /\ closing' = [closing EXCEPT ![c] = @ - 1]
    /\ gone' = gone \cup {c}
    /\ clientRef' = NoClient                                  \* line 721
    /\ av' = [av EXCEPT !.conn = FALSE]                       \* line 722
    /\ isConnected' = FALSE                                   \* line 723
    /\ pm' = StopManager(pm)                                  \* line 725
    /\ \E r \in BOOLEAN :
          /\ closingRec[c][r] > 0
          /\ closingRec' = [closingRec EXCEPT ![c][r] = @ - 1]
          /\ rec' = IF r
                    THEN [rec EXCEPT !.speaking = FALSE, !.on = FALSE,
                                     !.capturing = FALSE]         \* lines 726-732
                    ELSE [rec EXCEPT !.speaking = FALSE]          \* line 726
    /\ UNCHANGED <<isConnecting, nClients, nAttempts, closed, searchClientRef,
                   connPc, clientAuth, tools, config, logVars, sm, lst, budget>>

\* disconnect after close() rejected: the catch only logs (lines 739-741)
CloseRejects(c) ==
    /\ closing[c] > 0
    /\ closing' = [closing EXCEPT ![c] = @ - 1]
    /\ \E r \in BOOLEAN :
          /\ closingRec[c][r] > 0
          /\ closingRec' = [closingRec EXCEPT ![c][r] = @ - 1]
    /\ UNCHANGED <<isConnected, isConnecting, clientRef, nClients, nAttempts,
                   closed, gone, searchClientRef, connPc, clientAuth, tools, config, av, rec, pm,
                   logVars, sm, lst, budget>>

\* ------------------------------------------------------------- sendMessage
\* line 892: currentMessage.trim() && clientRef.current
SendGuard(text) == Truthy(Trim(text)) /\ clientRef # NoClient

FreeSlot(k) ==
    /\ sm[k].pc \in {"idle", "done"}
    /\ \A j \in 1..(k - 1) : sm[j].pc \notin {"idle", "done"}

\* sendItem called before the user Message is appended.
SendHeadSendFirst(text) ==
    <<Ev("sendItem", clientRef, text, "none"), Ev("append", NoClient, text, "none")>>

\* The synchronous head of sendMessage: the user Message is appended, then
\* sendItem is called (lines 894-908).
SendHead(text) ==
    <<Ev("append", NoClient, text, "none"), Ev("sendItem", clientRef, text, "none")>>

\* sendMessage from the call to the await of sendItem (lines 891-908)
SendMessage(k, text) ==
    /\ FreeSlot(k)
    /\ IF SendGuard(text)
       THEN /\ CanAppend
            /\ AppendMessage("user", text)                    \* lines 896-902
            /\ sm' = [sm EXCEPT ![k] = [pc |-> "sendItem", text |-> text,
                                        client |-> clientRef,
                                        trace |-> SendHead(text)]]
       ELSE /\ sm' = [sm EXCEPT ![k] = IdleSend]
            /\ UNCHANGED logVars
    /\ UNCHANGED <<connVars, pm, lst, budget>>

\* sendMessage after sendItem resolved: generateResponse is called on the
\* client clientRef holds now; reading null throws into the catch (909-912).
SendItemResolves(k) ==
    /\ sm[k].pc = "sendItem"
    /\ sm' = [sm EXCEPT ![k] =
                IF clientRef = NoClient
                THEN [@ EXCEPT !.pc = "done",
                               !.trace = Append(@, Ev("throw", NoClient, << >>, "none"))]
                ELSE [@ EXCEPT !.pc = "generateResponse", !.client = clientRef,
                               !.trace = Append(@, Ev("generateResponse", clientRef,
                                                      << >>, "none"))]]
    /\ UNCHANGED <<connVars, pm, logVars, lst, budget>>

\* catch (error) { console.error(...) } of sendMessage (lines 910-912)
SendCatch(t) == [t EXCEPT !.pc = "done",
                          !.trace = Append(@, Ev("throw", NoClient, << >>, "none"))]

\* sendMessage after sendItem or generateResponse rejected (lines 910-912)
SendRejects(k) ==
    /\ sm[k].pc \in {"sendItem", "generateResponse"}
    /\ sm' = [sm EXCEPT ![k] = SendCatch(@)]
    /\ UNCHANGED <<connVars, pm, logVars, lst, budget>>

\* sendMessage after generateResponse resolved (line 909)
GenerateResolves(k) ==
    /\ sm[k].pc = "generateResponse"
    /\ sm' = [sm EXCEPT ![k].pc = "done"]
    /\ UNCHANGED <<connVars, pm, logVars, lst, budget>>

\* ------------------------------------------------------------- event loop
FunctionNames == {"get_time", "search", "get_weather"}   \* item.functionName
CallIds == {"call_1", "call_2"}                          \* item.callId
Statuses == {"completed", "failed"}                      \* response.status

TimeOutput == <<"time">>                                 \* formattedTime (794-803)

\* The documents of the index: the identifier field and the content field
\* (lines 827, 834).  A content is a text; the index may hold a document
\* with a line of dashes in it.
Dashes == "-----"
Identifiers == {"d1", "d2"}
Contents == {<<"x">>, <<"x", "\n", Dashes>>}
Documents == [id : Identifiers, content : Contents]

\* The document of the index that the sessions without a claim on the output
\* find.
PlainDocument == [id |-> "d1", content |-> <<"x">>]

\* What a search finds: up to n documents, in ranked order.
Results(n) == UNION {[1..k -> Documents] : k \in 0..n}

\* `[${document[searchIdentifierField]}]: ${document[searchContentField]}\n-----\n`
\* (line 834)
ResultBlock(doc) == <<"[", doc.id, "]: ">> \o doc.content \o <<"\n", Dashes, "\n">>

\* let resultText = ""; for await (const result of searchResults.results)
\* resultText += ... (lines 830-835)
RECURSIVE ResultText(_)
ResultText(results) ==
    IF results = << >> THEN << >>
    ELSE ResultBlock(Head(results)) \o ResultText(Tail(results))

\* The transport of c can still deliver: its close() has not resolved.
Alive(c) == c \notin gone

Spend(what) == budget' = [budget EXCEPT ![what] = @ + 1]

\* The locals of one response item go out of scope when the loop moves on.
\* textTask and audioTask are not cancelled: a task still running keeps the
\* message object it appends to (lines 766-787).
DropItem(l) ==
    IF l.txt = "run" \/ l.aud = "run"
    THEN [l EXCEPT !.fn = "none", !.callId = "none", !.fcRes = "none",
                   !.results = << >>, !.trace = << >>]
    ELSE [IdleListener EXCEPT !.pc = l.pc, !.died = l.died]

\* catch of startResponseListener (lines 884-888): the loop is over.
\* cause: "closed" (the event sequence ended), "events" (it failed), "tool"
\* (JSON.parse or the lookup client threw) or "handler" (another await of
\* handleResponse or handleInputAudio rejected).
ListenerDies(l, cause) == DropItem([l EXCEPT !.pc = "done", !.died = cause])

\* What the rejected await of a listener was (for the cause of its end).
CauseAt(pc) ==
    CASE pc = "await_event" -> "events"
      [] pc = "search_wait" -> "tool"
      [] OTHER -> "handler"

\* An await of the loop rejects: nothing in handleResponse or handleInputAudio
\* catches, so the error ends the loop (lines 876-888).
AwaitRejects(c) ==
    /\ lst[c].pc \in {"await_event", "item", "part", "text", "fc_wait",
                      "search_wait", "fc_send", "fc_gen", "ia_wait"}
    /\ lst' = [lst EXCEPT ![c] = ListenerDies(@, CauseAt(@.pc))]
    /\ UNCHANGED <<connVars, pm, logVars, sm, budget>>

\* proactiveManagerRef.current?.updateActivity(...) (lines 783, 880, 926,
\* 939): the signal resets the last-active time of the manager.
UpdateActivity(p) ==
    IF p.exists THEN [p EXCEPT !.signalled = TRUE, !.idle = 0] ELSE p

\* for await (const serverEvent of clientRef.current.events()) (lines 876-882)
NextEvent(c, type) ==
    /\ lst[c].pc = "await_event"
    /\ Alive(c)
    /\ budget.events < MaxEvents
    /\ Spend("events")
    /\ lst' = [lst EXCEPT ![c].pc = IF type = "response" THEN "item" ELSE "ia_wait"]
    /\ pm' = IF type = "input_audio" THEN UpdateActivity(pm) ELSE pm    \* line 880
    /\ rec' = IF type = "input_audio" THEN [rec EXCEPT !.speaking = TRUE]  \* line 859
              ELSE rec
    /\ UNCHANGED <<sessVars, logVars, sm>>

\* The event sequence of a closed transport ends: the loop returns (line 883).
EventsEnd(c) ==
    /\ lst[c].pc = "await_event"
    /\ c \in closed
    /\ lst' = [lst EXCEPT ![c] = ListenerDies(@, "closed")]
    /\ UNCHANGED <<connVars, pm, logVars, sm, budget>>

\* The entries whose object the loop of c no longer holds lose its mark.
ClearOwner(ms, c) ==
    [i \in DOMAIN ms |-> IF ms[i].owner = c THEN [ms[i] EXCEPT !.owner = NoClient]
                         ELSE ms[i]]

\* An assistant message item: a new Message object is appended (lines 747-752).
ItemMessage(c) ==
    /\ lst[c].pc = "item"
    /\ Alive(c)
    /\ budget.items < MaxItems
    /\ CanAppend
    /\ Spend("items")
    /\ messages' = Append(ClearOwner(messages, c), Entry("assistant", << >>, c))
    /\ nMsgs' = nMsgs + 1
    /\ lst' = [lst EXCEPT ![c] = [DropItem(@) EXCEPT !.pc = "part", !.msg = TRUE]]
    /\ UNCHANGED <<connVars, pm, sm>>

\* An item that is neither an assistant message nor a function call is
\* skipped (lines 747, 790).
ItemOther(c) ==
    /\ lst[c].pc = "item"
    /\ Alive(c)
    /\ budget.items < MaxItems
    /\ Spend("items")
    /\ messages' = ClearOwner(messages, c)
    /\ UNCHANGED nMsgs
    /\ lst' = [lst EXCEPT ![c] = DropItem(@)]
    /\ UNCHANGED <<connVars, pm, sm>>

\* A function-call item: await item.waitForCompletion() (lines 790-791)
ItemFunctionCall(c, name, id) ==
    /\ lst[c].pc = "item"
    /\ Alive(c)
    /\ budget.items < MaxItems
    /\ Spend("items")
    /\ messages' = ClearOwner(messages, c)
    /\ UNCHANGED nMsgs
    /\ lst' = [lst EXCEPT ![c] = [DropItem(@) EXCEPT !.pc = "fc_wait", !.fn = name,
                                                     !.callId = id]]
    /\ UNCHANGED <<connVars, pm, sm>>

\* JSON.stringify(response.statusDetails) (line 852)
Details == {"rate_limit_exceeded", "server_error"}

\* "Response failed:" + JSON.stringify(response.statusDetails) (line 852)
FailureText(detail) == ResponseFailedText \o <<detail>>

\* A failed response is answered with a request for a new one.
ResponseRetried(l, status) ==
    IF status = "failed"
    THEN [l EXCEPT !.pc = "fc_gen",
                   !.trace = Append(@, Ev("generateResponse", clientRef, << >>, "none"))]
    ELSE [l EXCEPT !.pc = "await_event"]

\* handleResponse returns and the loop awaits the next event, whatever the
\* status (lines 856, 876-878).
ResponseOver(l, status) == [l EXCEPT !.pc = "await_event"]

\* The items of the response are over (lines 846-856).
ItemsEnd(c, status, detail) ==
    /\ lst[c].pc = "item"
    /\ IF status = "failed"
       THEN /\ CanAppend
            /\ messages' = Append(ClearOwner(messages, c),
                                  Entry("error", FailureText(detail), NoClient))
            /\ nMsgs' = nMsgs + 1
       ELSE /\ messages' = ClearOwner(messages, c)
            /\ UNCHANGED nMsgs
    /\ lst' = [lst EXCEPT ![c] = DropItem(ResponseOver(@, status))]
    /\ UNCHANGED <<connVars, pm, sm, budget>>

\* for await (const content of item) (lines 753-754, 765-787): an audio part
\* starts textTask and audioTask.
NextPart(c, type) ==
    /\ lst[c].pc = "part"
    /\ Alive(c)
    /\ budget.parts < MaxParts
    /\ Spend("parts")
    /\ lst' = [lst EXCEPT ![c] =
                 IF type = "text" THEN [@ EXCEPT !.pc = "text"]
                 ELSE [@ EXCEPT !.pc = "audio", !.txt = "run", !.aud = "run"]]
    /\ UNCHANGED <<connVars, pm, logVars, sm>>

\* The parts of the item are over (line 789).
PartsEnd(c) ==
    /\ lst[c].pc = "part"
    /\ lst' = [lst EXCEPT ![c].pc = "item"]
    /\ UNCHANGED <<connVars, pm, logVars, sm, budget>>

\* message.content = text + message.content
PrependFragment(content, text) == text \o content

\* message.content = text
ReplaceFragment(content, text) == text

\* message.content += text (lines 756, 768)
AppendFragment(content, text) == content \o text

\* The object the loop of c holds gets a new content; it is that object in the
\* log too (lines 748, 752, 756).
Mutate(ms, c, new) ==
    [i \in DOMAIN ms |-> IF ms[i].owner = c THEN [ms[i] EXCEPT !.content = new]
                         ELSE ms[i]]

\* line 758: prevMessages[prevMessages.length - 1]?.content
LastHasContent(ms) == ms # << >> /\ Truthy(ms[Len(ms)].content)

\* An updater that writes into the entry before the last one.
UpdateBeforeLast(ms, new) ==
    IF Len(ms) > 1 /\ Truthy(ms[Len(ms) - 1].content)
    THEN [ms EXCEPT ![Len(ms) - 1].content = new] ELSE ms

\* The updater of lines 757-763 (and 769-775)
UpdateLast(ms, new) ==
    IF LastHasContent(ms) THEN [ms EXCEPT ![Len(ms)].content = new] ELSE ms

Holds(ms, d) == \E i \in DOMAIN ms : ms[i].owner = d
ContentOf(ms, d) == ms[CHOOSE i \in DOMAIN ms : ms[i].owner = d].content

\* One fragment of the open message of c arrives (lines 755-764, 767-776).
FragmentUpdate(c, text) ==
    LET new == AppendFragment(lst[c].content, text)
        ms == UpdateLast(Mutate(messages, c, new), new)
    IN  /\ messages' = ms
        /\ UNCHANGED nMsgs
        /\ lst' = [d \in Clients |->
                     IF d = c
                     THEN [lst[c] EXCEPT !.content = new, !.arrived = @ \o text]
                     ELSE IF lst[d].msg /\ Holds(ms, d)
                     THEN [lst[d] EXCEPT !.content = ContentOf(ms, d)]
                     ELSE lst[d]]

\* for await (const text of content.textChunks()) (lines 755-764)
TextChunk(c, text) ==
    /\ lst[c].pc = "text"
    /\ Alive(c)
    /\ budget.chunks < MaxChunks
    /\ Spend("chunks")
    /\ FragmentUpdate(c, text)
    /\ UNCHANGED <<connVars, pm, sm>>

TextEnd(c) ==
    /\ lst[c].pc = "text"
    /\ lst' = [lst EXCEPT ![c].pc = "part"]
    /\ UNCHANGED <<connVars, pm, logVars, sm, budget>>

\* Promise.race in place of Promise.all: the first task to end resolves it.
AnySettled(t, a) == t = "done" \/ a = "done"

\* await Promise.all([textTask(), audioTask()]) resolves (line 787)
AllSettled(t, a) == t = "done" /\ a = "done"

\* The processor after a task of the audio part settled: Promise.all rejects
\* with the first failure, resolves when both ended (line 787).
Join(l) ==
    IF l.pc # "audio" THEN DropItem(l)
    ELSE IF l.txt = "fail" \/ l.aud = "fail" THEN ListenerDies(l, "handler")
    ELSE IF AllSettled(l.txt, l.aud) THEN [l EXCEPT !.pc = "part"]
    ELSE l

\* textTask: for await (const text of content.transcriptChunks()) (766-777)
TranscriptChunk(c, text) ==
    /\ lst[c].txt = "run"
    /\ Alive(c)
    /\ budget.chunks < MaxChunks
    /\ Spend("chunks")
    /\ FragmentUpdate(c, text)
    /\ UNCHANGED <<connVars, pm, sm>>

TranscriptSettles(c, how) ==
    /\ lst[c].txt = "run"
    /\ lst' = [lst EXCEPT ![c] = Join([@ EXCEPT !.txt = how])]
    /\ messages' = IF lst'[c].msg THEN messages ELSE ClearOwner(messages, c)
    /\ UNCHANGED nMsgs
    /\ UNCHANGED <<connVars, pm, sm, budget>>

\* audioTask: for await (const audio of content.audioChunks()) (778-786)
AudioChunk(c) ==
    /\ lst[c].aud = "run"
    /\ Alive(c)
    /\ budget.chunks < MaxChunks
    /\ Spend("chunks")
    /\ UNCHANGED <<connVars, pm, logVars, sm, lst>>

AudioSettles(c, how) ==
    /\ lst[c].aud = "run"
    /\ lst' = [lst EXCEPT ![c] = Join([@ EXCEPT !.aud = how])]
    /\ messages' = IF lst'[c].msg THEN messages ELSE ClearOwner(messages, c)
    /\ UNCHANGED nMsgs
    /\ UNCHANGED <<connVars, pm, sm, budget>>

\* generateResponse requested before the output is sent.
IssueOutputGenerateFirst(l, output) ==
    IF clientRef = NoClient
    THEN [l EXCEPT !.pc = "item"]
    ELSE [l EXCEPT !.pc = "fc_send",
                   !.trace = Append(@, Ev("generateResponse", clientRef, << >>, "none"))]

\* await clientRef.current?.sendItem({type: "function_call_output", ...}) and
\* what follows (lines 805-810, 837-842): with no client both calls are
\* skipped and the item is over.
IssueOutput(l, output) ==
    IF clientRef = NoClient
    THEN [l EXCEPT !.pc = "item"]
    ELSE [l EXCEPT !.pc = "fc_send",
                   !.trace = Append(@, Ev("sendItem", clientRef, output, l.callId))]

\* item.waitForCompletion() resolved (lines 791-844).  validArgs: whether
\* JSON.parse(item.arguments) succeeds (line 812).
FcCompletes(c, validArgs) ==
    /\ lst[c].pc = "fc_wait"
    /\ LET l == [lst[c] EXCEPT !.trace = Append(@, Ev("completed", c, << >>,
                                                      lst[c].callId))]
       IN CASE l.fn = "get_time" ->
                 /\ lst' = [lst EXCEPT ![c] = IssueOutput([l EXCEPT !.fcRes = "time"],
                                                          TimeOutput)]
                 /\ UNCHANGED logVars
            [] l.fn = "search" /\ ~validArgs ->
                 /\ lst' = [lst EXCEPT ![c] = ListenerDies(l, "tool")]
                 /\ UNCHANGED logVars
            [] l.fn = "search" /\ validArgs /\ searchClientRef ->
                 /\ CanAppend
                 /\ AppendMessage("status", SearchingText)       \* lines 815-821
                 /\ lst' = [lst EXCEPT ![c] = [l EXCEPT !.pc = "search_wait"]]
            [] l.fn = "search" /\ validArgs /\ ~searchClientRef ->
                 /\ lst' = [lst EXCEPT ![c] = [l EXCEPT !.pc = "item",
                                                        !.fcRes = "unconfigured"]]
                 /\ UNCHANGED logVars
            [] OTHER ->
                 /\ lst' = [lst EXCEPT ![c] = [l EXCEPT !.pc = "item",
                                                        !.fcRes = "unknown"]]
                 /\ UNCHANGED logVars
    /\ UNCHANGED <<connVars, pm, sm, budget>>

MaxResults == 2      \* results a search returns (top: 5, line 823)

\* searchClientRef.current.search resolved with these results (lines
\* 822-841); results: what the loop was given, kept for the claims.
SearchResolves(c, results) ==
    /\ lst[c].pc = "search_wait"
    /\ lst' = [lst EXCEPT ![c] = IssueOutput([@ EXCEPT !.fcRes = "results",
                                                       !.results = results],
                                             ResultText(results))]
    /\ UNCHANGED <<connVars, pm, logVars, sm, budget>>

\* sendItem resolved: await clientRef.current?.generateResponse() (810, 842)
FcSendResolves(c) ==
    /\ lst[c].pc = "fc_send"
    /\ lst' = [lst EXCEPT ![c] =
                 IF clientRef = NoClient THEN [@ EXCEPT !.pc = "item"]
                 ELSE [@ EXCEPT !.pc = "fc_gen",
                                !.trace = Append(@, Ev("generateResponse", clientRef,
                                                       << >>, "none"))]]
    /\ UNCHANGED <<connVars, pm, logVars, sm, budget>>

\* generateResponse resolved: the item is over (lines 810, 842)
FcGenResolves(c) ==
    /\ lst[c].pc = "fc_gen"
    /\ lst' = [lst EXCEPT ![c].pc = "item"]
    /\ UNCHANGED <<connVars, pm, logVars, sm, budget>>

\* The Message gets item.transcription as it is.
TranscriptionRaw(transcription) == transcription

\* item.transcription || "" (line 867)
TranscriptionText(transcription) ==
    IF transcription = Absent \/ ~Truthy(transcription) THEN << >> ELSE transcription

\* handleInputAudio after item.waitForCompletion() resolved (lines 861-869)
InputAudioCompletes(c, transcription) ==
    /\ lst[c].pc = "ia_wait"
    /\ CanAppend
    /\ rec' = [rec EXCEPT !.speaking = FALSE]                 \* line 862
    /\ AppendMessage("user", TranscriptionText(transcription))    \* lines 863-869
    /\ lst' = [lst EXCEPT ![c].pc = "await_event"]
    /\ UNCHANGED <<sessVars, pm, sm, budget>>

\* The clear-chat button (line 1841): messages.length > 0 && setMessages([])
ClearChat ==
    /\ messages # << >>
    /\ messages' = << >>
    /\ UNCHANGED nMsgs
    /\ UNCHANGED <<connVars, pm, sm, lst, budget>>

\* ------------------------------------------------------------- proactive manager
MaxTicks == 3        \* ticks of one started timer

\* The greeting is not remembered as sent.
GreetingDueAgain(p) == ~p.signalled

\* On a tick: no signal has arrived since the start and no greeting was sent.
GreetingDue(p) == ~p.signalled /\ ~p.greeted

\* On a tick: the time since the last activity (or the start) exceeds the
\* interval, which is so from the second tick after it.
NudgeDue(p) == p.idle >= 2

\* The transport calls of the callbacks: generateResponse({additional_instructions})
\* (line 655), sendItem of a message with role system (lines 665-675),
\* generateResponse() (line 676).
GreetingRequest == "generateResponse(additional_instructions)"
SystemTurn == "sendItem(system)"
ResponseRequest == "generateResponse()"

\* whenGreeting up to its await (lines 652-655)
WhenGreeting(p) ==
    IF clientRef # NoClient
    THEN [p EXCEPT !.task = "greet", !.calls = <<GreetingRequest>>]
    ELSE p

\* whenInactive requesting the response before it sends the turn.
WhenInactiveGenerateFirst(p) ==
    IF clientRef # NoClient
    THEN [p EXCEPT !.task = "nudge_send", !.calls = <<ResponseRequest>>]
    ELSE p

\* whenInactive up to its first await (lines 662-665)
WhenInactive(p) ==
    IF clientRef # NoClient
    THEN [p EXCEPT !.task = "nudge_send", !.calls = <<SystemTurn>>]
    ELSE p

\* One tick of the started timer: the greeting once, otherwise the nudge
\* when it is due.
Tick ==
    /\ pm.running
    /\ pm.ticks < MaxTicks
    /\ pm.task = "idle"
    /\ LET p == [pm EXCEPT !.ticks = @ + 1, !.idle = IF @ < 2 THEN @ + 1 ELSE @]
       IN pm' = IF GreetingDue(pm)
                THEN WhenGreeting([p EXCEPT !.greeted = TRUE, !.greetings = @ + 1])
                ELSE IF NudgeDue(p)
                THEN WhenInactive([p EXCEPT !.nudges = @ + 1])
                ELSE p
    /\ UNCHANGED <<connVars, logVars, sm, lst, budget>>

\* generateResponse of whenGreeting resolved or rejected (lines 655-658)
GreetSettles ==
    /\ pm.task = "greet"
    /\ pm' = [pm EXCEPT !.task = "idle"]
    /\ UNCHANGED <<connVars, logVars, sm, lst, budget>>

\* sendItem of whenInactive resolved: clientRef.current.generateResponse(),
\* which throws into the catch when the handle is null (lines 665-679); or
\* sendItem rejected.
NudgeSendSettles(ok) ==
    /\ pm.task = "nudge_send"
    /\ pm' = IF ok /\ clientRef # NoClient
             THEN [pm EXCEPT !.task = "nudge_gen",
                             !.calls = Append(@, ResponseRequest)]    \* line 676
             ELSE [pm EXCEPT !.task = "idle"]
    /\ UNCHANGED <<connVars, logVars, sm, lst, budget>>

\* generateResponse of whenInactive resolved or rejected (lines 676-679)
NudgeGenSettles ==
    /\ pm.task = "nudge_gen"
    /\ pm' = [pm EXCEPT !.task = "idle"]
    /\ UNCHANGED <<connVars, logVars, sm, lst, budget>>

\* A callback of the audio handler signals activity: a chunk was played
\* (line 783) or recorded while the user speaks (line 926).
ActivityCallback ==
    /\ pm.running
    /\ pm' = UpdateActivity(pm)
    /\ pm' # pm
    /\ UNCHANGED <<connVars, logVars, sm, lst, budget>>

\* ------------------------------------------------------------- avatar
\* The awaits of setRemoteDescription, in order (lines 974-986): createOffer,
\* setLocalDescription, the 2 s timer, connectAvatar, setRemoteDescription.
NextNeg(stage) ==
    CASE stage = "offer" -> "local"
      [] stage = "local" -> "settle"
      [] stage = "settle" -> "answer"
      [] stage = "answer" -> "remote"
      [] stage = "remote" -> "done"

\* What the code after the await of stage needs: the peerConnection variable
\* (lines 975, 982, 984) and, for the answer to apply, the transport handle
\* (with none remoteDescription is undefined, line 981).
CanGoOn(stage) ==
    CASE stage = "offer" -> av.conn
      [] stage = "local" -> TRUE
      [] stage = "settle" -> av.conn /\ clientRef # NoClient
      [] stage = "answer" -> av.conn
      [] stage = "remote" -> TRUE

\* The setRemoteDescription calls that can be running: that of the latest
\* getLocalDescription and that of an earlier one.
Negs == {"neg", "old"}

On(n) == IF n = "neg" THEN "negOn" ELSE "oldOn"

\* The object the module variable peerConnection holds (line 176), 0 for null.
Cur(a) == IF a.conn THEN a.open ELSE 0

\* The code of setRemoteDescription between the await of call n that resolved
\* and its next await (lines 974-985).  Every statement reads the module
\* variable peerConnection anew: setLocalDescription is called on the object
\* it holds then (line 975), and connectAvatar is given the local description
\* of the object it holds after the timer (lines 981-983).
Advance(a, n) ==
    CASE a[n] = "offer" -> [a EXCEPT ![n] = "local", ![On(n)] = Cur(a)]
      [] a[n] = "local" ->
           [a EXCEPT ![n] = "settle", !.localSet = @ \cup {a[On(n)]}, ![On(n)] = 0]
      [] a[n] = "settle" ->
           [a EXCEPT ![n] = "answer",
                     !.sent = IF Cur(a) \in a.localSet THEN "set" ELSE "unset"]
      [] OTHER -> [a EXCEPT ![n] = NextNeg(@)]

\* An await of the setRemoteDescription call n settles.  ok: it resolved.
\* When it rejected, or the code after it throws, the catch appends an error
\* Message (lines 986-996).
NegSettles(n, ok) ==
    /\ InFlight(av[n])
    /\ ok \/ av[n] # "settle"
    /\ IF ok /\ CanGoOn(av[n])
       THEN /\ av' = Advance(av, n)
            /\ UNCHANGED logVars
       ELSE /\ CanAppend
            /\ AppendMessage("error", AvatarErrorText)
            /\ av' = [av EXCEPT ![n] = "idle", ![On(n)] = 0]
    /\ UNCHANGED <<isConnected, isConnecting, clientRef, nClients, nAttempts, closed,
                   gone, searchClientRef, connPc, closing, clientAuth, tools, config, closingRec,
                   rec, pm, sm, lst, budget>>

\* peerConnection.ontrack: a media element is appended to videoRef (lines
\* 1002-1010); tracks arrive on an open connection with the answer applied.
AvatarTrack ==
    /\ av.open > 0
    /\ av.neg = "done"
    /\ ~av.video
    /\ av' = [av EXCEPT !.video = TRUE]
    /\ UNCHANGED <<isConnected, isConnecting, clientRef, nClients, nAttempts, closed,
                   gone, searchClientRef, connPc, closing, clientAuth, tools, config, closingRec,
                   rec, pm, logVars, sm, lst, budget>>

\* ------------------------------------------------------------- recording
\* The mount effect: audioHandlerRef.current = an initialized AudioHandler
\* (lines 1048-1055).
InitAudioHandler ==
    /\ ~rec.handler
    /\ rec' = [rec EXCEPT !.handler = TRUE]
    /\ UNCHANGED <<isConnected, isConnecting, clientRef, nClients, nAttempts, closed,
                   gone, searchClientRef, connPc, closing, clientAuth, tools, config, closingRec,
                   av, pm, logVars, sm, lst, budget>>

\* The end of a toggleRecording call: setIsRecording(on), or its catch.
RecDone(r, on) == [r EXCEPT !.on = on, !.pc = "idle"]

\* line 937: turnDetectionType === null.  manual: no turn-detection policy
\* is active.
ManualCommit(manual) == manual

\* toggleRecording from the call to its first await (lines 916-943).
\* stopRecording ends the capture (line 935); handleInputAudio sets
\* isUserSpeaking before its await (line 859), and with no handle it then
\* throws into the catch (lines 940, 944).
ToggleRecordingCall(manual) ==
    /\ rec.pc = "idle"
    /\ IF ~rec.on /\ clientRef # NoClient                     \* line 917
       THEN /\ rec' = IF rec.handler THEN [rec EXCEPT !.pc = "start"]
                      ELSE [rec EXCEPT !.handler = TRUE, !.pc = "init"]
            /\ UNCHANGED pm
       ELSE /\ rec.handler                                    \* line 933
            /\ IF ~ManualCommit(manual)
               THEN /\ rec' = [RecDone(rec, FALSE) EXCEPT !.capturing = FALSE]  \* 935, 943
                    /\ UNCHANGED pm
               ELSE IF clientRef # NoClient
               THEN /\ rec' = [rec EXCEPT !.capturing = FALSE, !.pc = "commit"]  \* line 938
                    /\ UNCHANGED pm
               ELSE /\ pm' = UpdateActivity(pm)               \* line 939
                    /\ rec' = [rec EXCEPT !.capturing = FALSE, !.speaking = TRUE]
    /\ <<rec', pm'>> # <<rec, pm>>
    /\ UNCHANGED <<isConnected, isConnecting, clientRef, nClients, nAttempts, closed,
                   gone, searchClientRef, connPc, closing, clientAuth, tools, config, closingRec,
                   av, logVars, sm, lst, budget>>

\* toggleRecording from the click on the mic button, which is enabled while
\* isConnected (lines 1907, 1947).
ToggleRecording(manual) ==
    /\ isConnected
    /\ ToggleRecordingCall(manual)

\* audioHandlerRef.current.initialize() settled (line 921)
RecInitSettles(ok) ==
    /\ rec.pc = "init"
    /\ rec' = IF ok THEN [rec EXCEPT !.pc = "start"] ELSE RecDone(rec, rec.on)
    /\ UNCHANGED <<isConnected, isConnecting, clientRef, nClients, nAttempts, closed,
                   gone, searchClientRef, connPc, closing, clientAuth, tools, config, closingRec,
                   av, pm, logVars, sm, lst, budget>>

\* The capture device has started, or failed to (lines 923-932)
RecStartSettles(ok) ==
    /\ rec.pc = "start"
    /\ rec' = IF ok THEN [RecDone(rec, TRUE) EXCEPT !.capturing = TRUE]   \* line 929
              ELSE RecDone(rec, rec.on)
    /\ UNCHANGED <<isConnected, isConnecting, clientRef, nClients, nAttempts, closed,
                   gone, searchClientRef, connPc, closing, clientAuth, tools, config, closingRec,
                   av, pm, logVars, sm, lst, budget>>

\* commitAudio settled (lines 938-940): handleInputAudio awaits the item.
RecCommitSettles(ok) ==
    /\ rec.pc = "commit"
    /\ IF ok
       THEN /\ pm' = UpdateActivity(pm)                       \* line 939
            /\ rec' = [rec EXCEPT !.pc = "ia", !.speaking = TRUE]   \* 940, 859-861
       ELSE /\ rec' = RecDone(rec, rec.on)
            /\ UNCHANGED pm
    /\ UNCHANGED <<isConnected, isConnecting, clientRef, nClients, nAttempts, closed,
                   gone, searchClientRef, connPc, closing, clientAuth, tools, config, closingRec,
                   av, logVars, sm, lst, budget>>

\* item.waitForCompletion() of the committed audio settled (lines 861-869,
\* 941): with no handle generateResponse is skipped.
RecInputSettles(ok, transcription) ==
    /\ rec.pc = "ia"
    /\ IF ok
       THEN /\ CanAppend
            /\ AppendMessage("user", TranscriptionText(transcription))   \* lines 863-869
            /\ rec' = IF clientRef # NoClient
                      THEN [rec EXCEPT !.pc = "gen", !.speaking = FALSE]   \* line 862
                      ELSE [RecDone(rec, FALSE) EXCEPT !.speaking = FALSE]
       ELSE /\ rec' = RecDone(rec, rec.on)
            /\ UNCHANGED logVars
    /\ UNCHANGED <<isConnected, isConnecting, clientRef, nClients, nAttempts, closed,
                   gone, searchClientRef, connPc, closing, clientAuth, tools, config, closingRec,
                   av, pm, sm, lst, budget>>

\* generateResponse of the manual commit settled (lines 941-943)
RecGenSettles(ok) ==
    /\ rec.pc = "gen"
    /\ rec' = RecDone(rec, IF ok THEN FALSE ELSE rec.on)
    /\ UNCHANGED <<isConnected, isConnecting, clientRef, nClients, nAttempts, closed,
                   gone, searchClientRef, connPc, closing, clientAuth, tools, config, closingRec,
                   av, pm, logVars, sm, lst, budget>>

MaxCapture == 2      \* chunks the recorder hands to its callback

\* The recorder hands a chunk to the callback of startRecording, which calls
\* clientRef.current?.sendAudio(chunk) (lines 923-924); with no handle the
\* await is of undefined.
CaptureChunk ==
    /\ rec.capturing
    /\ rec.chunkPc = "idle"
    /\ rec.chunks < MaxCapture
    /\ rec' = [rec EXCEPT !.chunks = @ + 1,
                          !.chunkPc = IF clientRef # NoClient THEN "send" ELSE "skip"]
    /\ UNCHANGED <<sessVars, pm, logVars, sm, lst, budget>>

\* Every forwarded chunk signals activity.
AlwaysSignals(speaking) == TRUE

\* line 925: if (isUserSpeaking.current)
SignalsActivity(speaking) == speaking

\* The await of line 924 settled: when it resolved and isUserSpeaking is set,
\* the callback signals "user speaking" (lines 925-927).  last: "signal" or
\* "quiet" for a chunk the transport took, "skipped" with no handle, "failed"
\* when sendAudio rejected.
ChunkSettles(ok) ==
    /\ rec.chunkPc \in {"send", "skip"}
    /\ ok \/ rec.chunkPc = "send"
    /\ LET signal == ok /\ SignalsActivity(rec.speaking)
       IN /\ rec' = [rec EXCEPT !.chunkPc = "idle",
                                !.last = IF ~ok THEN "failed"
                                         ELSE IF rec.chunkPc = "skip" THEN "skipped"
                                         ELSE IF signal THEN "signal" ELSE "quiet"]
          /\ pm' = IF signal THEN UpdateActivity(pm) ELSE pm
    /\ UNCHANGED <<sessVars, logVars, sm, lst, budget>>

\* ------------------------------------------------------------- specifications
ConnectAny ==
    \/ \E cred \in Credentials, md \in Modes, hasAgent \in BOOLEAN,
          validUrl \in BOOLEAN, enableSearch \in BOOLEAN :
          HandleConnect(cred, md, hasAgent, validUrl, enableSearch)
    \/ HandleConnectLoaded
    \/ \E cred \in Credentials, md \in Modes, hasAgent \in BOOLEAN,
          validUrl \in BOOLEAN, enableSearch \in BOOLEAN :
          RefreshSettles(cred, md, hasAgent, validUrl, enableSearch)

\* Connect with a configuration that passes the checks of lines 510 and 521.
ConnectValid ==
    \E enableSearch \in BOOLEAN :
        HandleConnect("key", "model", FALSE, TRUE, enableSearch)

\* The same, with the search tool left off (line 1568).
ConnectPlain == HandleConnect("key", "model", FALSE, TRUE, FALSE)

\* Connect with the tools selected in the settings: the search checkbox sets
\* enableSearch with the selection (lines 1567-1569).
ConnectSelected == HandleConnect("key", "model", FALSE, TRUE, "search" \in tools.selected)

\* Connect once the mount effect has loaded a configuration (configLoaded
\* true, line 482), with the credential of the provider (line 501).
ConnectLoaded ==
    /\ config.loaded = "yes"
    /\ HandleConnectLoaded

RefreshLoaded ==
    RefreshSettles(IF config.captured > 0 THEN "token" ELSE "key", "model", FALSE,
                   TRUE, FALSE)

\* Connect with a key typed in when /config is not there (lines 1261-1266).
ConnectUnloaded ==
    /\ config.loaded = "no"
    /\ ConnectPlain

ToolSteps == \E name \in ToolNames, checked \in BOOLEAN : ToolCheckbox(name, checked)

\* configure resolves for a session with no avatar and proactive mode off
\* (lines 603, 626).
ConfigurePlain == ConfigureResolves("none", FALSE)

DisconnectSteps ==
    \/ Disconnect
    \/ \E c \in Clients : CloseResolves(c)
    \/ \E c \in Clients : CloseRejects(c)

\* The connect button while Connected, and the close() it waits for.
ButtonDisconnectSteps ==
    \/ HandleDisconnect
    \/ \E c \in Clients : CloseResolves(c)
    \/ \E c \in Clients : CloseRejects(c)

ProactiveSteps ==
    \/ Tick
    \/ GreetSettles
    \/ \E ok \in BOOLEAN : NudgeSendSettles(ok)
    \/ NudgeGenSettles
    \/ ActivityCallback

AvatarSteps ==
    \/ \E n \in Negs, ok \in BOOLEAN : NegSettles(n, ok)
    \/ AvatarTrack

RecordingSteps ==
    \/ InitAudioHandler
    \/ \E manual \in BOOLEAN : ToggleRecording(manual)
    \/ \E ok \in BOOLEAN : RecInitSettles(ok)
    \/ \E ok \in BOOLEAN : RecStartSettles(ok)
    \/ \E ok \in BOOLEAN : RecCommitSettles(ok)
    \/ \E ok \in BOOLEAN, transcription \in Transcriptions :
          RecInputSettles(ok, transcription)
    \/ \E ok \in BOOLEAN : RecGenSettles(ok)

\* The awaits of toggleRecording.
RecordingSettles ==
    \/ \E ok \in BOOLEAN : RecInitSettles(ok)
    \/ \E ok \in BOOLEAN : RecStartSettles(ok)
    \/ \E ok \in BOOLEAN : RecCommitSettles(ok)
    \/ \E ok \in BOOLEAN, transcription \in Transcriptions :
          RecInputSettles(ok, transcription)
    \/ \E ok \in BOOLEAN : RecGenSettles(ok)

\* The callback of the recorder.
CaptureSteps ==
    \/ CaptureChunk
    \/ \E ok \in BOOLEAN : ChunkSettles(ok)

\* The service reports the speech of the user (lines 879-881, 858-870).
SpeechSteps ==
    \/ \E c \in Clients : NextEvent(c, "input_audio")
    \/ \E c \in Clients, transcription \in Transcriptions :
          InputAudioCompletes(c, transcription)

SendSteps ==
    \/ \E k \in 1..MaxSendTasks, text \in Texts : SendMessage(k, text)
    \/ \E k \in 1..MaxSendTasks : SendItemResolves(k)
    \/ \E k \in 1..MaxSendTasks : SendRejects(k)
    \/ \E k \in 1..MaxSendTasks : GenerateResolves(k)

EventSteps ==
    \/ \E c \in Clients : AwaitRejects(c)
    \/ \E c \in Clients, type \in {"response", "input_audio"} : NextEvent(c, type)
    \/ \E c \in Clients : ItemOther(c)
    \/ \E c \in Clients, status \in Statuses, detail \in Details :
          ItemsEnd(c, status, detail)
    \/ \E c \in Clients, transcription \in Transcriptions :
          InputAudioCompletes(c, transcription)

MessageSteps ==
    \/ \E c \in Clients : ItemMessage(c)
    \/ \E c \in Clients, type \in {"text", "audio"} : NextPart(c, type)
    \/ \E c \in Clients : PartsEnd(c)
    \/ \E c \in Clients, text \in Fragments(budget.chunks) : TextChunk(c, text)
    \/ \E c \in Clients : TextEnd(c)
    \/ \E c \in Clients, text \in Fragments(budget.chunks) : TranscriptChunk(c, text)
    \/ \E c \in Clients, how \in {"done", "fail"} : TranscriptSettles(c, how)
    \/ \E c \in Clients : AudioChunk(c)
    \/ \E c \in Clients, how \in {"done", "fail"} : AudioSettles(c, how)

CallSteps ==
    \/ \E c \in Clients, name \in FunctionNames, id \in CallIds :
          ItemFunctionCall(c, name, id)
    \/ \E c \in Clients, validArgs \in BOOLEAN : FcCompletes(c, validArgs)
    \/ \E c \in Clients, results \in {<< >>, <<PlainDocument>>} :
          SearchResolves(c, results)
    \/ \E c \in Clients : FcSendResolves(c)
    \/ \E c \in Clients : FcGenResolves(c)

\* The whole program.
Next ==
    \/ ConnectAny
    \/ \E avatar \in AvatarOutcomes, proactive \in BOOLEAN :
          ConfigureResolves(avatar, proactive)
    \/ HandleDisconnect
    \/ ProactiveSteps
    \/ AvatarSteps
    \/ RecordingSteps
    \/ ToolSteps
    \/ \E outcome \in {"missing", "token", "empty", "threw"} : ConfigLoads(outcome)
    \/ \E manual \in BOOLEAN : ToggleRecordingCall(manual)
    \/ CaptureSteps
    \/ ConfigureRejects
    \/ DisconnectSteps
    \/ SendSteps
    \/ ClearChat
    \/ EventSteps
    \/ \E c \in Clients : EventsEnd(c)
    \/ MessageSteps
    \/ CallSteps

Spec == Init /\ [][Next]_vars

\* The session life cycle and sendMessage; the transports deliver nothing.
NextSession ==
    \/ ConnectAny
    \/ ConfigurePlain
    \/ ConfigureRejects
    \/ DisconnectSteps
    \/ SendSteps
    \/ ClearChat

SpecSession == Init /\ [][NextSession]_vars

\* The inbound event loop of sessions connected with a valid configuration.
NextLoop ==
    \/ ConnectValid
    \/ ConfigurePlain
    \/ DisconnectSteps
    \/ EventSteps
    \/ \E c \in Clients : EventsEnd(c)
    \/ MessageSteps
    \/ CallSteps

SpecLoop == Init /\ [][NextLoop]_vars

\* The message log of one connected session: streaming assistant messages
\* against sendMessage and the clear-chat button.
NextLog ==
    \/ ConnectPlain
    \/ ConfigurePlain
    \/ SendSteps
    \/ ClearChat
    \/ EventSteps
    \/ MessageSteps

SpecLog == Init /\ [][NextLog]_vars

\* Sessions with proactive mode on: the timer of the manager and its
\* callbacks against the connect button.
NextProactive ==
    \/ ConnectPlain
    \/ ConfigureResolves("none", TRUE)
    \/ ButtonDisconnectSteps
    \/ ProactiveSteps

SpecProactive == Init /\ [][NextProactive]_vars

\* Sessions with an avatar: the media session against the connect button.
NextAvatar ==
    \/ ConnectPlain
    \/ \E avatar \in AvatarOutcomes : ConfigureResolves(avatar, FALSE)
    \/ ButtonDisconnectSteps
    \/ AvatarSteps

SpecAvatar == Init /\ [][NextAvatar]_vars

\* The mic button against the connect button.
NextRecord ==
    \/ ConnectPlain
    \/ ConfigurePlain
    \/ ButtonDisconnectSteps
    \/ RecordingSteps

SpecRecord == Init /\ [][NextRecord]_vars

\* Sessions connected and disconnected with the connect button, with or
\* without proactive mode, and the event loops they start.
NextCycle ==
    \/ ConnectValid
    \/ \E proactive \in BOOLEAN : ConfigureResolves("none", proactive)
    \/ ConfigureRejects
    \/ ButtonDisconnectSteps
    \/ EventSteps
    \/ \E c \in Clients : EventsEnd(c)
    \/ CallSteps

SpecCycle == Init /\ [][NextCycle]_vars

\* The tool checkboxes against the connect button.
NextTools ==
    \/ ToolSteps
    \/ ConnectSelected
    \/ HandleConnectLoaded
    \/ RefreshSettles("key", "model", FALSE, TRUE, "search" \in tools.captured)
    \/ ConfigurePlain
    \/ ConfigureRejects
    \/ ButtonDisconnectSteps

SpecTools == Init /\ [][NextTools]_vars

\* The token refresh of the connect attempts.
NextRefresh ==
    \/ \E outcome \in {"missing", "token", "empty", "threw"} : ConfigLoads(outcome)
    \/ ConnectLoaded
    \/ RefreshLoaded
    \/ ConnectUnloaded
    \/ ConfigurePlain
    \/ ConfigureRejects
    \/ ButtonDisconnectSteps

SpecRefresh == Init /\ [][NextRefresh]_vars

\* toggleRecording as an entry point, in every state of the session.
NextMic ==
    \/ ConnectPlain
    \/ ConfigurePlain
    \/ ConfigureRejects
    \/ ButtonDisconnectSteps
    \/ InitAudioHandler
    \/ \E manual \in BOOLEAN : ToggleRecordingCall(manual)
    \/ RecordingSettles
    \/ CaptureSteps

SpecMic == Init /\ [][NextMic]_vars

\* The recorder streaming in one session with proactive mode on, while the
\* service reports the speech of the user and the timer of the manager ticks.
NextSpeech ==
    \/ ConnectPlain
    \/ ConfigureResolves("none", TRUE)
    \/ RecordingSteps
    \/ CaptureSteps
    \/ SpeechSteps
    \/ Tick

SpecSpeech == Init /\ [][NextSpeech]_vars

\* The search tool of one session, over everything the index can return.
NextSearch ==
    \/ HandleConnect("key", "model", FALSE, TRUE, TRUE)
    \/ ConfigurePlain
    \/ ButtonDisconnectSteps
    \/ \E c \in Clients : NextEvent(c, "response")
    \/ \E c \in Clients, id \in CallIds : ItemFunctionCall(c, "search", id)
    \/ \E c \in Clients, validArgs \in BOOLEAN : FcCompletes(c, validArgs)
    \/ \E c \in Clients, results \in Results(MaxResults) : SearchResolves(c, results)
    \/ \E c \in Clients : FcSendResolves(c)
    \/ \E c \in Clients : FcGenResolves(c)
    \/ \E c \in Clients : ItemsEnd(c, "completed", "server_error")

SpecSearch == Init /\ [][NextSearch]_vars

\* A step of the event loop of client c, or of the handler it awaits: an event
\* or an item is delivered, an await of the handler settles, or the event
\* sequence ends.
LoopStep(c) ==
    \/ NextEvent(c, "response")
    \/ EventsEnd(c)
    \/ AwaitRejects(c)
    \/ \E status \in Statuses : ItemsEnd(c, status, "server_error")
    \/ \E id \in CallIds : ItemFunctionCall(c, "get_time", id)
    \/ FcCompletes(c, TRUE)
    \/ FcSendResolves(c)
    \/ FcGenResolves(c)

\* Sessions whose transport delivers responses with get_time calls, against
\* the connect button.  An await that is pending settles at some time, and
\* the event sequence of a closed transport ends.
NextDrain ==
    \/ ConnectPlain
    \/ ConfigurePlain
    \/ ButtonDisconnectSteps
    \/ \E c \in Clients : LoopStep(c)

SpecDrain == Init /\ [][NextDrain]_vars /\ \A c \in Clients : WF_vars(LoopStep(c))

\* ------------------------------------------------------------- claims
Last(t) == t[Len(t)]

\* C1: a completed disconnect() has released the transport handle and left
\* the state Connected, also when close() raised: once no disconnect() call
\* is suspended on the close() of a client, clientRef no longer holds it.
C1_DisconnectReleasesClient ==
    \A c \in closed : closing[c] = 0 => clientRef # c /\ ~(isConnected /\ clientRef = c)

\* The function call of the loop of c was answered: a function_call_output
\* with its call id was sent and a response was requested after it.
Answered(c) ==
    \E i, j \in DOMAIN lst[c].trace :
        /\ i < j
        /\ lst[c].trace[i].op = "sendItem"
        /\ lst[c].trace[i].callId = lst[c].callId
        /\ lst[c].trace[j].op = "generateResponse"

\* The tool of the function call failed (the lookup client or JSON.parse
\* threw) or its name is not a registered one, and the item is over.
ToolFailed(c) ==
    \/ lst[c].died = "tool"
    \/ lst[c].pc = "item" /\ lst[c].fcRes = "unknown"

\* C2: a function call whose tool fails or whose name is not registered is
\* still answered with a function_call_output and a response request.
C2_FailedToolStillAnswered == \A c \in Clients : ToolFailed(c) => Answered(c)

\* C3: an error raised while an inbound event is processed does not end the
\* event loop: a loop ended by such an error only on a transport that a
\* disconnect has closed.
C3_LoopSurvivesHandlerErrors ==
    \A c \in Clients :
        lst[c].pc = "done" /\ lst[c].died \in {"handler", "tool"} => c \in closed

\* A sendMessage call of this step got past its guard.
SendStarts(k) == sm[k].pc # "sendItem" /\ sm'[k].pc = "sendItem"

\* C4: sendText acts (appends, sends) only on a non-blank text in state
\* Connected; in every other state, Connecting included, it is a no-op.
C4_SendOnlyWhenConnected ==
    [][\A k \in 1..MaxSendTasks :
          SendStarts(k) => isConnected /\ Truthy(Trim(sm'[k].text))]_vars

\* A sendMessage call of this step ended in its catch.
SendFails(k) ==
    /\ sm[k].pc \in {"sendItem", "generateResponse"}
    /\ sm'[k].pc = "done"
    /\ Last(sm'[k].trace).op = "throw"

\* In a trace every sendItem comes after the append of the same text and
\* every generateResponse after a sendItem.
SendOrdered(t) ==
    \A i \in DOMAIN t :
        /\ t[i].op = "sendItem" =>
              \E j \in 1..(i - 1) : t[j].op = "append" /\ t[j].output = t[i].output
        /\ t[i].op = "generateResponse" =>
              \E j \in 1..(i - 1) : t[j].op = "sendItem"

\* C5: sendText appends the user Message before it calls sendItem, calls
\* sendItem before generateResponse, and a failing sendItem or
\* generateResponse leaves the log as it is (no roll back).
C5_AppendThenSendThenGenerate ==
    /\ [](\A k \in 1..MaxSendTasks : SendOrdered(sm[k].trace))
    /\ [][\A k \in 1..MaxSendTasks :
            /\ SendStarts(k) =>
                  messages' = Append(messages, Entry("user", sm'[k].text, NoClient))
            /\ SendFails(k) => messages' = messages]_vars

C5_Witness ==
    \E k \in 1..MaxSendTasks :
        /\ isConnected
        /\ sm[k].pc = "done"
        /\ Len(sm[k].trace) = 3
        /\ sm[k].trace[2].op = "sendItem"
        /\ sm[k].trace[3].op = "throw"
        /\ \E i \in DOMAIN messages : messages[i] = Entry("user", sm[k].text, NoClient)

\* C6: a failing sendItem or generateResponse of sendText appends an error
\* Message to the log.
C6_SendFailureAppendsError ==
    [][\A k \in 1..MaxSendTasks :
          SendFails(k) =>
              /\ Len(messages') = Len(messages) + 1
              /\ Last(messages').type = "error"]_vars

\* A fragment (text, transcript or audio) arrives in this step.
FragmentArrives == budget'.chunks # budget.chunks

\* An assistant message item is taken by the loop of c in this step.
MessageItemTaken(c) ==
    budget'.items # budget.items /\ lst'[c].pc = "part" /\ lst[c].pc = "item"

OwnEntries(ms, c) == {i \in DOMAIN ms : ms[i].owner = c}

\* C7: the content of the Message of an assistant message item is the
\* concatenation of its fragments in arrival order, and one Message entry is
\* created for the item: one when the item is taken, none by a fragment.
C7_ContentIsConcatenation ==
    /\ [](\A c \in Clients :
            lst[c].msg =>
                /\ lst[c].content = lst[c].arrived
                /\ Cardinality(OwnEntries(messages, c)) <= 1
                /\ \A i \in OwnEntries(messages, c) :
                      /\ messages[i].type = "assistant"
                      /\ messages[i].content = lst[c].arrived)
    /\ [][/\ FragmentArrives => nMsgs' = nMsgs /\ Len(messages') = Len(messages)
          /\ \A c \in Clients :
                MessageItemTaken(c) =>
                    /\ nMsgs' = nMsgs + 1
                    /\ Len(messages') = Len(messages) + 1
                    /\ Last(messages') = Entry("assistant", << >>, c)]_vars

C7_Witness ==
    \E c \in Clients :
        /\ lst[c].pc = "item"
        /\ lst[c].msg
        /\ lst[c].arrived = <<"a", "b">>
        /\ \E i \in DOMAIN messages :
              messages[i] = Entry("assistant", <<"a", "b">>, c)

\* C8: a fragment update changes no Message but the open assistant Message:
\* every entry that is not the object a loop holds keeps its content.
C8_FragmentLeavesOtherMessages ==
    [][FragmentArrives =>
          \A i \in DOMAIN messages :
              messages[i].owner = NoClient =>
                  i \in DOMAIN messages' /\ messages'[i] = messages[i]]_vars

\* C9: textTask and audioTask of an audio part are both started, and the
\* processor is past the part (at the next part, the next item, the next
\* event) only when both have ended.
C9_AudioPartJoinsBothTasks ==
    \A c \in Clients :
        /\ lst[c].pc = "audio" => lst[c].txt # "none" /\ lst[c].aud # "none"
        /\ lst[c].pc \notin {"audio", "done"} =>
              lst[c].txt \in {"none", "done"} /\ lst[c].aud \in {"none", "done"}

C9_Witness ==
    \E c \in Clients :
        /\ lst[c].pc = "part"
        /\ lst[c].txt = "done"
        /\ lst[c].aud = "done"
        /\ lst[c].arrived # << >>

InCall == {"fc_wait", "search_wait", "fc_send", "fc_gen"}

\* The trace of a get_time call is complete: the wait, one sendItem with the
\* time and the call id, one generateResponse, in this order.
GetTimeDone(l) ==
    /\ Len(l.trace) = 3
    /\ l.trace[1].op = "completed"
    /\ l.trace[2].op = "sendItem"
    /\ l.trace[2].callId = l.callId
    /\ l.trace[2].output = TimeOutput
    /\ l.trace[3].op = "generateResponse"

\* C10 as stated: every get_time item whose call completed ends with exactly
\* one sendItem(function_call_output) followed by exactly one
\* generateResponse.
C10_GetTimeExactlyOnce ==
    [][\A c \in Clients :
          /\ lst[c].fn = "get_time"
          /\ lst[c].pc \in InCall
          /\ lst'[c].pc \notin InCall
          /\ ~(lst[c].pc = "fc_wait" /\ lst'[c].pc = "done")
          => lst[c].pc = "fc_gen" /\ GetTimeDone(lst[c])]_vars

\* The trace of a get_time call is a prefix of: the wait, sendItem with the
\* time and the call id, generateResponse.
GetTimePrefix(l) ==
    /\ Len(l.trace) <= 3
    /\ Len(l.trace) >= 1 => l.trace[1].op = "completed"
    /\ Len(l.trace) >= 2 =>
          /\ l.trace[2].op = "sendItem"
          /\ l.trace[2].callId = l.callId
          /\ l.trace[2].output = TimeOutput
    /\ Len(l.trace) >= 3 => l.trace[3].op = "generateResponse"

\* C10 as amended: for a get_time item the processor waits for the call,
\* then makes at most one sendItem(function_call_output) with the call id and
\* after it at most one generateResponse, never in the reverse order; each
\* call is made when clientRef holds a client at that point (sendItem once
\* the call completed, generateResponse once sendItem resolved), and with no
\* client the item ends without it.
C10_GetTimeOrdered ==
    /\ [](\A c \in Clients :
            lst[c].fn = "get_time" =>
                /\ GetTimePrefix(lst[c])
                /\ lst[c].pc = "fc_wait" => lst[c].trace = << >>
                /\ lst[c].pc = "fc_send" => Len(lst[c].trace) = 2
                /\ lst[c].pc = "fc_gen" => Len(lst[c].trace) = 3)
    /\ [][\A c \in Clients :
            lst[c].fn = "get_time" /\ lst[c].pc \in {"fc_wait", "fc_send"}
            /\ lst'[c].pc \notin {lst[c].pc, "done"}
            => lst'[c].pc = IF clientRef = NoClient THEN "item"
                            ELSE IF lst[c].pc = "fc_wait" THEN "fc_send"
                            ELSE "fc_gen"]_vars

C10_Witness ==
    \E c \in Clients :
        /\ lst[c].pc = "item"
        /\ lst[c].fn = "get_time"
        /\ GetTimeDone(lst[c])

\* The function call of the loop of c was answered with the empty output: a
\* function_call_output with its call id and output "" was sent and a
\* response was requested after it.
AnsweredEmpty(c) ==
    \E i, j \in DOMAIN lst[c].trace :
        /\ i < j
        /\ lst[c].trace[i].op = "sendItem"
        /\ lst[c].trace[i].callId = lst[c].callId
        /\ lst[c].trace[i].output = << >>
        /\ lst[c].trace[j].op = "generateResponse"

\* C11: a search call received while no lookup client is configured is
\* answered: once its item is over, a function_call_output with the call id
\* and an empty output was sent and a response requested.
C11_UnconfiguredSearchAnswered ==
    \A c \in Clients :
        lst[c].pc = "item" /\ lst[c].fn = "search" /\ lst[c].fcRes = "unconfigured"
        => AnsweredEmpty(c)

\* The loop of c is inside handleResponse: a response is being processed.
Processing(c) ==
    lst[c].pc \in {"item", "part", "text", "audio", "fc_wait", "search_wait",
                   "fc_send", "fc_gen"}

\* C12: in every reachable state, also after disconnect and reconnect, at
\* most one response is being processed.
C12_OneResponseAtATime == Cardinality({c \in Clients : Processing(c)}) <= 1

\* The scenario of C12 that does not depend on the transport: the loop of a
\* closed client is still waiting for its search when the loop of the next
\* client takes a response.
C12_StaleSearchScenario ==
    \E c, d \in Clients :
        /\ c # d
        /\ c \in gone
        /\ lst[c].pc = "search_wait"
        /\ clientRef = d
        /\ Processing(d)

\* This step is the part of a connect attempt that reads the settings, made
\* with credentials cred in mode md, with or without an agent id.
ConnectStep(cred, md, hasAgent) ==
    \E validUrl \in BOOLEAN, enableSearch \in BOOLEAN :
        \/ HandleConnect(cred, md, hasAgent, validUrl, enableSearch)
        \/ RefreshSettles(cred, md, hasAgent, validUrl, enableSearch)

\* C13: a connect attempt in agent mode with no agent id appends exactly one
\* error Message "Please input/select an agent.", creates no transport, sends
\* no handshake, starts no event loop, and leaves the state Disconnected
\* with the Connecting flag cleared.
C13_AgentMissingRejected ==
    [][(\E cred \in Credentials : ConnectStep(cred, "agent", FALSE)) =>
          /\ messages' = Append(messages, Entry("error", AgentErrorText, NoClient))
          /\ clientRef' = clientRef
          /\ nClients' = nClients
          /\ clientAuth' = clientAuth
          /\ connPc' = "idle"
          /\ lst' = lst
          /\ ~isConnected'
          /\ ~isConnecting']_vars

C13_Witness ==
    /\ messages = <<Entry("error", AgentErrorText, NoClient)>>
    /\ nAttempts = 1
    /\ nClients = 0
    /\ clientRef = NoClient
    /\ connPc = "idle"
    /\ ~isConnected
    /\ ~isConnecting
    /\ \A c \in Clients : lst[c].pc = "idle"

\* C14: a connect attempt made with neither an API key nor a token fails
\* with an error before any transport is opened and leaves the state
\* Disconnected: the attempt ends with an error Message, no client
\* constructed and no handshake sent.
C14_NoCredentialFailsBeforeTransport ==
    [][(\E md \in Modes, hasAgent \in BOOLEAN : ConnectStep("none", md, hasAgent)) =>
          /\ Len(messages') = Len(messages) + 1
          /\ Last(messages').type = "error"
          /\ clientRef' = clientRef
          /\ nClients' = nClients
          /\ connPc' = "idle"
          /\ ~isConnected'
          /\ ~isConnecting']_vars

\* A disconnect() call on the latest client has completed and no client was
\* created since.
DisconnectCompleted == \E c \in closed : closing[c] = 0 /\ c = nClients

\* C15: a disconnect() call made after a disconnect() call has completed,
\* with no connect in between, closes no transport and leaves the state
\* unchanged.
C15_SecondDisconnectIsNoOp ==
    [][DisconnectCompleted =>
          /\ \A c \in Clients : closing'[c] <= closing[c]
          /\ closed' = closed]_vars

\* A timer callback makes a transport call in this step: generateResponse of
\* the greeting, sendItem or generateResponse of the nudge.
ProactiveCall ==
    pm'.task # pm.task /\ pm'.task \in {"greet", "nudge_send", "nudge_gen"}

\* C16: after disconnect() has completed, no proactive action makes a
\* transport call.
C16_NoProactiveCallAfterDisconnect == [][DisconnectCompleted => ~ProactiveCall]_vars

\* C17: with the manager started and no activity signal received, the
\* greeting has fired exactly once after any number of ticks, the nudge at
\* most once per tick from the second tick on; the greeting never fires
\* twice.
C17_GreetingExactlyOnce ==
    pm.exists =>
        /\ pm.greetings <= 1
        /\ ~pm.signalled /\ pm.ticks >= 1 =>
              /\ pm.greetings = 1
              /\ pm.nudges <= pm.ticks - 1

C17_Witness ==
    /\ pm.running
    /\ ~pm.signalled
    /\ pm.ticks = 2
    /\ pm.greetings = 1
    /\ pm.nudges = 1

\* getLocalDescription throws in this step: creating the media session or
\* attaching the media lines failed.
AvatarSetupFails ==
    \E avatar \in {"create_fails", "attach_fails"} : ConfigureResolves(avatar, FALSE)

\* An await of setRemoteDescription failed in this step: the offer, its
\* sending or the answer.
AvatarNegotiationFails == \E n \in Negs : InFlight(av[n]) /\ av'[n] = "idle"

ErrorAppended ==
    Len(messages') = Len(messages) + 1 /\ Last(messages').type = "error"

\* C18: a failure at any step of avatar negotiation appends an error Message
\* and is not fatal: a failing setup still leaves the session Connected with
\* its event loop running, and a failing negotiation leaves the session and
\* its loop as they are.
C18_AvatarFailureNotFatal ==
    [][/\ AvatarSetupFails =>
             /\ ErrorAppended
             /\ isConnected'
             /\ clientRef # NoClient => lst'[clientRef].pc = "await_event"
       /\ AvatarNegotiationFails =>
             /\ ErrorAppended
             /\ isConnected' = isConnected
             /\ lst' = lst]_vars

\* C19: in the state Disconnected that a completed disconnect() leaves, no
\* media session is open and nothing is attached to the rendering surface.
C19_NoMediaSessionAfterDisconnect ==
    ~isConnected /\ clientRef = NoClient /\ gone # {} /\ connPc = "idle"
    => av.open = 0 /\ ~av.video

\* C20: Recording is On only while the session is Connected.
C20_RecordingOnlyWhileConnected == rec.on => isConnected

\* C21: a toggleRecording call made with Recording On commits the buffered
\* audio only when no turn-detection policy is active, and with a policy
\* active it makes no transport call and ends with Recording Off; a response
\* is requested only after such a commit; a call made with Recording Off in
\* a session that is not Connected starts nothing: no capture whose chunks go
\* to the transport, no commit.
C21_ToggleCallsTransportOnlyToCommit ==
    [][/\ \A manual \in BOOLEAN :
             ToggleRecordingCall(manual) /\ rec.on =>
                 /\ rec'.pc = "commit" => manual
                 /\ ~manual => rec'.pc = "idle" /\ ~rec'.on
                 /\ manual /\ clientRef # NoClient => rec'.pc = "commit"
       /\ rec'.pc = "gen" /\ rec.pc # "gen" => rec.pc = "ia"
       /\ \A manual \in BOOLEAN :
             ToggleRecordingCall(manual) /\ ~rec.on /\ ~isConnected =>
                 rec'.pc = "idle"]_vars

\* The entries of a log with the marks of the loops left out.
Unmarked(ms) == [i \in DOMAIN ms |-> [ms[i] EXCEPT !.owner = NoClient]]

\* C22: when the items of a response are over and its status is failed,
\* exactly one error Message with the failure detail is appended, after the
\* Messages of its items, and nothing is retried: the loop goes back to
\* waiting for the next event with no sendItem and no generateResponse
\* issued, and no other handler is started.
C22_FailedResponseOneErrorNoRetry ==
    [][\A c \in Clients, detail \in Details :
          ItemsEnd(c, "failed", detail) =>
              /\ Len(messages') = Len(messages) + 1
              /\ Last(messages').type = "error"
              /\ Last(messages').content = <<"Response failed:", detail>>
              /\ Unmarked(SubSeq(messages', 1, Len(messages))) = Unmarked(messages)
              /\ lst'[c].pc = "await_event"
              /\ lst'[c].trace = << >>
              /\ \A d \in Clients \ {c} : lst'[d] = lst[d]
              /\ sm' = sm
              /\ pm' = pm
              /\ rec' = rec]_vars

C22_Witness ==
    \E c \in Clients :
        /\ lst[c].pc = "await_event"
        /\ budget.events = 1
        /\ budget.chunks = 1
        /\ Len(messages) = 3
        /\ messages[2] = Entry("assistant", <<"a">>, NoClient)
        /\ messages[3] = Entry("error", <<"Response failed:", "server_error">>, NoClient)

AssistantEntries(ms) == {i \in DOMAIN ms : ms[i].type = "assistant"}

\* C23: in state Connected a sendMessage call with a text appends the user
\* Message with that text in the same step; when the service answers with an
\* assistant message item, exactly one assistant Message is created for it,
\* and while the item is open that Message stays the only one of the item,
\* with a content whose length never decreases (the log not being cleared
\* by the user).
C23_UserMessageThenGrowingAnswer ==
    [][/\ \A k \in 1..MaxSendTasks :
             SendStarts(k) /\ isConnected =>
                 /\ Len(messages') = Len(messages) + 1
                 /\ Last(messages').type = "user"
                 /\ Last(messages').content = sm'[k].text
       /\ \A c \in Clients :
             MessageItemTaken(c) =>
                 /\ Cardinality(OwnEntries(messages', c)) = 1
                 /\ Cardinality(AssistantEntries(messages')) =
                       Cardinality(AssistantEntries(messages)) + 1
       /\ \A c \in Clients :
             /\ lst[c].msg /\ lst'[c].msg
             /\ budget'.items = budget.items
             /\ messages' # << >>
             => /\ Cardinality(OwnEntries(messages', c)) <= 1
                /\ \A i \in OwnEntries(messages, c) :
                      /\ i \in OwnEntries(messages', c)
                      /\ messages'[i].type = "assistant"
                      /\ Len(messages'[i].content) >= Len(messages[i].content)]_vars

C23_Witness ==
    \E c \in Clients :
        /\ isConnected
        /\ lst[c].msg
        /\ lst[c].pc = "item"
        /\ sm[1].text = <<"h">>
        /\ Len(messages) = 3
        /\ messages[2] = Entry("user", <<"h">>, NoClient)
        /\ messages[3] = Entry("assistant", <<"a", "b">>, c)

\* The loops that were started and have not ended.  A loop waiting for the
\* next event of a transport whose close() has resolved counts as ended: the
\* event sequence ends with the close.
ActiveLoops(l) ==
    {c \in Clients : /\ l[c].pc \notin {"idle", "done"}
                     /\ ~(l[c].pc = "await_event" /\ c \in gone)}

\* C24: a successful connect starts exactly one event loop, on the client of
\* the session, and starts the manager if and only if proactive mode is
\* enabled; a connect attempt that fails starts none; and over every
\* sequence of connects and disconnects at most one loop is active.
C24_OneLoopPerSession ==
    /\ [](Cardinality(ActiveLoops(lst)) <= 1)
    /\ [][/\ \A proactive \in BOOLEAN :
                ConfigureResolves("none", proactive) =>
                    /\ ActiveLoops(lst') = ActiveLoops(lst) \cup {clientRef}
                    /\ clientRef \notin ActiveLoops(lst)
                    /\ lst'[clientRef].pc = "await_event"
                    /\ pm'.running <=> proactive
          /\ ConfigureRejects => lst' = lst /\ pm' = pm
          /\ isConnecting /\ ~isConnecting' /\ ~isConnected' =>
                lst' = lst /\ pm' = pm]_vars

\* C25: the tools declared in the configuration handshake are tools the
\* dispatcher executes (get_time, search), never get_weather or calculate,
\* and the declared set does not change while the session is Connected.
C25_DeclaredToolsAreDispatchable ==
    /\ [](tools.declared \subseteq {"get_time", "search"})
    /\ [](tools.declared \subseteq Dispatchable)
    /\ [][isConnected /\ isConnected' => tools'.declared = tools.declared]_vars

C25_Witness ==
    /\ isConnected
    /\ nClients = 2
    /\ tools.declared = {"get_time", "search"}
    /\ tools.selected = {"get_time", "search"}
    /\ searchClientRef

\* An RTClient is constructed in this step.
ClientCreated == nClients' = nClients + 1

\* C27: with a configuration provider, every connect attempt fetches the
\* credentials again before it constructs its client; when the fetch fails
\* the attempt goes on with the token it held; and when the fetch returns a
\* token, the client of that attempt is constructed with the returned token.
C27_ConnectUsesRefreshedToken ==
    [][/\ ClientCreated /\ config.loaded = "yes" => connPc = "refresh"
       /\ connPc = "refresh" /\ connPc' # "refresh" =>
             /\ ClientCreated
             /\ config'.fetched <= 0 => config'.used = config.token
             /\ config'.fetched > 0 => config'.used = config'.fetched]_vars

\* A connect attempt fails in this step: new URL(endpoint) threw before the
\* client was constructed, or configure rejected.
ConnectFails ==
    \/ ConfigureRejects
    \/ \E cred \in Credentials, md \in Modes, enableSearch \in BOOLEAN :
          /\ ~AgentMissing(md, TRUE)
          /\ \/ HandleConnect(cred, md, TRUE, FALSE, enableSearch)
             \/ RefreshSettles(cred, md, TRUE, FALSE, enableSearch)

\* C28: a connect attempt that fails while the transport is opened or in
\* the configuration handshake appends exactly one error Message, starts no
\* event loop and no manager, and ends Disconnected with the Connecting flag
\* cleared and no transport handle; in every state that is Disconnected and
\* not Connecting no transport handle exists.
C28_FailedConnectLeavesNoHandle ==
    /\ [](~isConnected /\ ~isConnecting => clientRef = NoClient)
    /\ [][ConnectFails =>
             /\ Len(messages') = Len(messages) + 1
             /\ Last(messages').type = "error"
             /\ lst' = lst
             /\ pm' = pm
             /\ ~isConnected'
             /\ ~isConnecting'
             /\ clientRef' = NoClient]_vars

\* A disconnect() call has started and not completed: it is suspended on
\* the close() of its client.
DisconnectRunning == \E c \in Clients : closing[c] > 0

\* C29: the timer of the manager is stopped before disconnect() suspends on
\* close(): between the start of a disconnect() call and its completion no
\* greeting and no nudge sends a turn or requests a response.
C29_NoProactiveCallDuringDisconnect == [][DisconnectRunning => ~ProactiveCall]_vars

\* A chunk of the recorder was taken by the transport in this step.
ChunkForwarded ==
    rec.chunkPc = "send" /\ rec'.chunkPc = "idle" /\ rec'.last \in {"signal", "quiet"}

\* C26 as stated: every chunk forwarded to the transport while Recording is
\* On raises a user-speaking signal to the manager.
C26_EveryChunkSignals ==
    [][ChunkForwarded /\ rec.on /\ pm.exists =>
          rec'.last = "signal" /\ pm' = UpdateActivity(pm)]_vars

\* C26 as amended: a chunk forwarded to the transport raises the
\* user-speaking signal exactly when isUserSpeaking is set at that point,
\* which it is from the start of handleInputAudio to the completion of its
\* item; a chunk forwarded at another time raises none.
C26_ChunkSignalsWhileSpeaking ==
    [][ChunkForwarded =>
          /\ rec'.last = "signal" <=> rec.speaking
          /\ pm' = IF rec.speaking THEN UpdateActivity(pm) ELSE pm]_vars

C26_Witness ==
    /\ rec.on
    /\ rec.chunks = 2
    /\ rec.last = "signal"
    /\ rec.speaking
    /\ pm.signalled
    /\ pm.ticks > 0
    /\ pm.idle = 0

\* C30: overlapping disconnect() calls on one connected session perform the
\* close of the transport and the teardown after it at most once: no two
\* calls are suspended on the close() of the same client, and the steps
\* after close() (lines 721-738) do not run again for a client they have
\* already run for.
C30_OverlappingDisconnectClosesOnce ==
    /\ [](\A c \in Clients : closing[c] <= 1)
    /\ [][\A c \in Clients : c \in gone => ~CloseResolves(c)]_vars

\* The transport calls the loop of client c made for the function call of
\* its current item.
ToolCalls(c) ==
    {i \in DOMAIN lst[c].trace : lst[c].trace[i].op \in {"sendItem", "generateResponse"}}

\* C31: the function_call_output turn and the response request after it go
\* to the transport of the session that delivered the functionCall item,
\* also when a disconnect and a reconnect happened while the tool ran.
C31_OutputOnOwnTransport ==
    \A c \in Clients : \A i \in ToolCalls(c) : lst[c].trace[i].client = c

\* The stages a setRemoteDescription call can be at after the stage it was at.
NegFollows(before, after) ==
    \/ after = before
    \/ InFlight(before) /\ after \in {NextNeg(before), "idle"}

\* getLocalDescription runs in this step: a media session is created.
NegotiationStarts == av'.open = av.open + 1

\* C32: avatar negotiation runs in the order media session created and lines
\* attached, offer created, offer set as local description, settle delay,
\* offer sent, answer received, answer applied; the offer sent to the service
\* is the local description of a media session that has one; the negotiation
\* is started only by a handshake response that carries avatar parameters.
C32_NegotiationInOrder ==
    /\ [][IF NegotiationStarts
          THEN /\ \E avatar \in AvatarOutcomes \ {"none"} :
                      ConfigureResolves(avatar, FALSE)
               /\ av'.neg \in {"offer", av.neg}
               /\ av'.old \in {av.old, av.neg}
          ELSE \A n \in Negs : NegFollows(av[n], av'[n])]_vars
    /\ [][av'.sent # av.sent => \E n \in Negs : av[n] = "settle" /\ av'[n] = "answer"]_vars
    /\ [](av.sent # "unset")

\* The session is Disconnected after a disconnect() that has completed: no
\* handle, no connect attempt running.
DisconnectedAfterClose ==
    ~isConnected /\ clientRef = NoClient /\ gone # {} /\ connPc = "idle"

\* C33: an avatar negotiation still in flight when disconnect() completes has
\* no effect afterwards: while the session is Disconnected it sends no offer,
\* applies no remote description and appends no Message.
C33_NegotiationSilentAfterDisconnect ==
    [][DisconnectedAfterClose /\ (\E n \in Negs, ok \in BOOLEAN : NegSettles(n, ok)) =>
          /\ av'.sent = av.sent
          /\ \A n \in Negs : av'[n] = "remote" => av[n] = "remote"
          /\ messages' = messages]_vars

\* The loop of c takes an input_audio event in this step.
InputItemTaken(c) == lst[c].pc = "await_event" /\ lst'[c].pc = "ia_wait"

\* The input item of the loop of c has finished and handleInputAudio returns.
InputItemDone(c) == lst[c].pc = "ia_wait" /\ lst'[c].pc = "await_event"

\* A user Message is appended in this step.
UserAppended ==
    Len(messages') = Len(messages) + 1 /\ Last(messages').type = "user"

\* C34: for an inbound user-audio event the user-speaking signal is raised
\* when the event is taken and no Message is appended then; the user Message
\* is appended in the step in which the input item has finished, one per
\* item, and its text is the transcription provided, or the empty string
\* when there is none.
C34_InputAudioSignalThenOneMessage ==
    [][/\ \A c \in Clients :
             /\ InputItemTaken(c) =>
                   /\ pm' = UpdateActivity(pm)
                   /\ rec'.speaking
                   /\ messages' = messages
             /\ InputItemDone(c) =>
                   /\ UserAppended
                   /\ \E t \in Transcriptions :
                         /\ InputAudioCompletes(c, t)
                         /\ Last(messages').content =
                               IF t = <<"t">> THEN <<"t">> ELSE << >>
       /\ UserAppended =>
             \/ \E c \in Clients : InputItemDone(c)
             \/ rec.pc = "ia" /\ rec'.pc # "ia"]_vars

C34_Witness ==
    /\ \E c \in Clients : lst[c].pc = "await_event"
    /\ budget.events = 2
    /\ pm.signalled
    /\ Len(messages) = 3
    /\ messages[2].type = "user" /\ messages[2].content = << >>
    /\ messages[3].type = "user" /\ messages[3].content = <<"t">>

\* The loop of client c, or the handler it awaits, goes on in this step.
LoopActs(c) == lst'[c].pc # lst[c].pc \/ lst'[c].trace # lst[c].trace

\* It makes a transport call in this step.
LoopCalls(c) ==
    /\ Len(lst'[c].trace) > Len(lst[c].trace)
    /\ Last(lst'[c].trace).op \in {"sendItem", "generateResponse"}

\* C35: after disconnect() has completed the event loop of the closed
\* session appends no further Message and makes no further transport call,
\* and, the event sequence of the closed transport ending, it terminates.
C35_LoopEndsAfterDisconnect ==
    /\ [][\A c \in gone : LoopActs(c) =>
              /\ Len(messages') = Len(messages)
              /\ ~LoopCalls(c)]_vars
    /\ \A c \in Clients : [](c \in gone => <>(lst[c].pc \in {"idle", "done"}))

\* How many times the token occurs in the text.
RECURSIVE Occurrences(_, _)
Occurrences(token, text) ==
    IF text = << >> THEN 0
    ELSE (IF Head(text) = token THEN 1 ELSE 0) + Occurrences(token, Tail(text))

\* The identifiers a formatted output names, in the order it names them.
RECURSIVE IdentifiersIn(_)
IdentifiersIn(text) ==
    IF Len(text) < 2 THEN << >>
    ELSE IF Head(text) = "[" THEN <<text[2]>> \o IdentifiersIn(Tail(Tail(text)))
    ELSE IdentifiersIn(Tail(text))

\* The function_call_output turns the loop of c has sent for its search.
SearchOutputs(c) ==
    {i \in DOMAIN lst[c].trace :
        lst[c].fcRes = "results" /\ lst[c].trace[i].op = "sendItem"}

\* C36: the output of a search call with a configured lookup client names the
\* results in ranked order, each ended by a "-----" line, so it holds as many
\* "-----" as results were returned; with zero results it is the empty
\* string, and it is sent as a function_call_output, not reported as an error.
C36_SearchOutputOneSeparatorPerResult ==
    /\ [](\A c \in Clients : \A i \in SearchOutputs(c) :
            LET output == lst[c].trace[i].output
                results == lst[c].results
            IN  /\ IdentifiersIn(output) = [k \in DOMAIN results |-> results[k].id]
                /\ Occurrences(Dashes, output) = Len(results)
                /\ results = << >> => output = << >>)
    /\ [][\A c \in Clients, results \in Results(MaxResults) :
             SearchResolves(c, results) /\ clientRef # NoClient =>
                 /\ lst'[c].pc = "fc_send"
                 /\ Last(lst'[c].trace).op = "sendItem"
                 /\ messages' = messages]_vars

\* A callback of the manager goes on or ends in this step.
CallbackSettles == pm.task # "idle" /\ pm'.task # pm.task

\* C37: the nudge sends one system-authored turn and then requests a
\* response, in that order; the greeting only requests a response with
\* additional instructions and sends no turn; with no transport a callback
\* makes no call; a callback that fails ends without changing the session.
C37_NudgeTurnThenRequest ==
    /\ [](/\ pm.task = "greet" => pm.calls = <<GreetingRequest>>
          /\ pm.task = "nudge_send" => pm.calls = <<SystemTurn>>
          /\ pm.task = "nudge_gen" => pm.calls = <<SystemTurn, ResponseRequest>>
          /\ pm.calls \in {<< >>, <<GreetingRequest>>, <<SystemTurn>>,
                           <<SystemTurn, ResponseRequest>>})
    /\ [][/\ Tick /\ clientRef = NoClient =>
                pm'.task = "idle" /\ pm'.calls = pm.calls
          /\ CallbackSettles =>
                /\ UNCHANGED <<connVars, logVars, sm, lst>>
                /\ [pm' EXCEPT !.task = pm.task, !.calls = pm.calls] = pm
                /\ pm'.task = "idle" => pm'.calls = pm.calls]_vars

C37_Witness ==
    /\ pm.greetings = 1
    /\ pm.nudges = 1
    /\ pm.task = "idle"
    /\ pm.calls = <<SystemTurn, ResponseRequest>>
    /\ clientRef # NoClient

\* The recorder hands a chunk to its callback in this step.
ChunkTaken == rec'.chunks = rec.chunks + 1

\* C38: after disconnect() has completed no audio chunk is forwarded to a
\* transport: a capture callback that fires then makes no transport call,
\* and the teardown of disconnect stops the capture when Recording is On.
C38_NoChunkAfterDisconnect ==
    [][/\ DisconnectedAfterClose /\ ChunkTaken => rec'.chunkPc # "send"
       /\ \A c \in Clients :
             CloseResolves(c) /\ rec.on => ~rec'.capturing /\ ~rec'.on]_vars

\* The loop of c is inside an assistant message item whose stream can still
\* deliver: the item has not finished and its transport is not gone.
InsideItem(c) ==
    /\ Alive(c)
    /\ lst[c].msg
    /\ lst[c].pc \in {"part", "text", "audio"} \/ lst[c].txt = "run"

\* The assistant Messages of the log that are open for appending.
OpenEntries == {i \in DOMAIN messages : \E c \in Clients :
                   messages[i].owner = c /\ InsideItem(c)}

\* C39: at most one assistant Message is open for appending at any time, and
\* it is closed when its response item finishes: the content of an assistant
\* Message whose item has finished is changed by no later fragment.
C39_OneOpenAssistantMessage ==
    /\ [](Cardinality(OpenEntries) <= 1)
    /\ [][\A i \in DOMAIN messages :
             /\ messages[i].type = "assistant"
             /\ i \notin OpenEntries
             /\ i \in DOMAIN messages'
             => messages'[i].content = messages[i].content]_vars

C39_Witness ==
    /\ Len(messages) = 3
    /\ messages[2].type = "assistant" /\ messages[2].content = <<"a">>
    /\ messages[3].type = "assistant" /\ messages[3].content = <<"b">>
    /\ OpenEntries = {3}

\* The configuration handshake of the attempt in flight succeeded and
\* handleConnect ran to its end.
HandshakeSucceeds ==
    \E avatar \in AvatarOutcomes, proactive \in BOOLEAN :
       ~AvatarThrows(avatar) /\ ConfigureResolves(avatar, proactive)

\* C40: Connected is entered only from Connecting and only by the step in
\* which the configuration handshake succeeded, and every connect attempt,
\* successful or failed, ends with the Connecting flag cleared: with no
\* attempt suspended on an await the session is not in Connecting.
C40_ConnectedOnlyThroughConnecting ==
    /\ [][~isConnected /\ isConnected'
            => isConnecting /\ connPc = "configure" /\ HandshakeSucceeds]_vars
    /\ [][connPc # "idle" /\ connPc' = "idle" => ~isConnecting']_vars
    /\ [](connPc = "idle" => ~isConnecting)

C40_Witness ==
    /\ isConnected /\ ~isConnecting /\ connPc = "idle"
    /\ nAttempts = 2
    /\ \E i \in DOMAIN messages : messages[i].type = "error"
    /\ \E i \in DOMAIN messages : messages[i].type = "status"

====
